---------------------------- MODULE Spec2Model ----------------------------
(***************************************************************************)
(* Analytics & Forecasting Engine of the post-sale dashboard.              *)
(*                                                                         *)
(* The module models four entry points of the engine as state machines     *)
(* over one set of variables:                                              *)
(*   - SpecMerge    : gastos_automaticos.obtener_gastos_totales_con_...    *)
(*   - SpecForecast : ai_analysis.predict_next_month_advanced / _simple    *)
(*   - SpecAlerts   : ai_analysis.detect_critical_alerts                   *)
(*   - SpecAnomaly  : ai_analysis.detect_anomalies_advanced                *)
(* Money is an integer number of USD; a percentage p of x is x*p/100 and   *)
(* the ledgers use amounts on which that division is exact.  Dates are     *)
(* integer day numbers (day 1 is a Monday).                                *)
(***************************************************************************)
EXTENDS Integers, Sequences, FiniteSets, TLC

VARIABLES
    pc,                 \* position of the running entry point
    db,                 \* rows the ledger collaborator holds (ventas, gastos)
    df_ventas,          \* sales ledger (sequence of sale records)
    df_gastos,          \* manual expense ledger (sequence of expense records)
    gastos_automaticos, \* synthetic records built so far
    gastos_totales_ctx, \* totals dict of the merge (holds gastos_todos)
    pendientes,         \* branches / rows / rules still to be visited
    caps,               \* capability flags and library outcomes
    predicciones,       \* strategy outputs collected by the ensemble
    metodos_usados,     \* names of the strategies that succeeded
    intentados,         \* strategies whose fit was attempted (history)
    prediccion,         \* ForecastResult returned
    entorno,            \* gastos_context, fecha_fin, referencia_corte, now
    alertas_criticas,   \* critical alerts emitted
    anomalias,          \* anomalies emitted
    resultado,          \* dict returned by a ratio calculator
    entrada,            \* the ledgers as the caller passed them
    insights,           \* tendencias / alertas / recomendaciones lists
    recomendaciones,    \* additional recommendations of the bundle
    gemini_status,      \* enrichment status of the bundle
    historial,          \* rows the persistence connector stored
    bundle              \* dicts returned by get_ai_summary, one per run

vars == <<pc, db, df_ventas, df_gastos, gastos_automaticos,
          gastos_totales_ctx, pendientes,
          caps, predicciones, metodos_usados, intentados, prediccion, entorno,
          alertas_criticas, anomalias, resultado, entrada, insights,
          recomendaciones, gemini_status, historial, bundle>>

mergeVars    == <<gastos_automaticos, gastos_totales_ctx>>
forecastVars == <<caps, predicciones, metodos_usados, intentados, prediccion>>
alertVars    == <<entorno, alertas_criticas>>
anomalyVars  == <<anomalias>>
kpiVars      == <<resultado>>
summaryVars  == <<entrada, insights, recomendaciones, gemini_status,
                  historial, bundle>>

\* No ratio calculator and no summary has run.
SinKpi == resultado = <<>>
SinResumen ==
    /\ entrada = <<>> /\ insights = <<>> /\ recomendaciones = <<>>
    /\ gemini_status = <<>> /\ historial = <<>> /\ bundle = <<>>

-----------------------------------------------------------------------------
(* Generic helpers: pandas column operations on a sequence of records.      *)

RECURSIVE SumSeq(_)
SumSeq(s) == IF s = <<>> THEN 0 ELSE Head(s) + SumSeq(Tail(s))

\* The sequences over S of length 0..n.
SeqsUpTo(S, n) == UNION {[1..k -> S] : k \in 0..n}

Range(s) == {s[i] : i \in DOMAIN s}

Abs(x) == IF x < 0 THEN -x ELSE x

\* A nullable number: <<>> is NULL/NaN, <<v>> is the value v.
NULL == <<>>
Val(v) == <<v>>

\* Series.sum(): NaN entries are skipped.
RECURSIVE SumNullable(_)
SumNullable(s) ==
    IF s = <<>> THEN 0
    ELSE (IF Head(s) = NULL THEN 0 ELSE Head(s)[1]) + SumNullable(Tail(s))

Col(s, f) == [i \in DOMAIN s |-> s[i][f]]

\* Series.unique(): the distinct values in order of first appearance.
RECURSIVE Unique(_)
Unique(s) ==
    IF s = <<>> THEN <<>>
    ELSE LET h == Head(s)
         IN  <<h>> \o Unique(SelectSeq(Tail(s), LAMBDA x : x # h))

\* x * p / 100 (exact on the amounts the ledgers use).
Pct(x, p) == (x * p) \div 100

-----------------------------------------------------------------------------
(* Automatic Cost Allocator: src/gastos_automaticos.py                      *)

COSTO_PORCENTAJE == 65
APROX_REPUESTOS_SE == 70

CLASIF_MOSTRADOR == "COSTO DE REPUESTOS VENDIDOS MOSTRADOR"
CLASIF_SERVICIOS == "COSTO DE REPUESTOS VENDIDOS EN SERVICIOS"
clasificaciones_automaticas == {CLASIF_MOSTRADOR, CLASIF_SERVICIOS}

\* A 'fecha' that pd.to_datetime(errors='coerce') turns into NaT.
NaT == 0
\* A NULL 'sucursal' / 'cliente'.
NA == "<NA>"

\* Lines 22-24: rows whose date does not parse are dropped.
DropNaT(ventas) == SelectSeq(ventas, LAMBDA v : v.fecha # NaT)

\* Line 29: df_ventas['sucursal'].dropna().unique()
Sucursales(ventas) ==
    Unique(Col(SelectSeq(ventas, LAMBDA v : v.sucursal # NA), "sucursal"))

DeSucursal(ventas, s) == SelectSeq(ventas, LAMBDA v : v.sucursal = s)
DeTipo(ventas, t)     == SelectSeq(ventas, LAMBDA v : v.tipo_re_se = t)

\* Lines 38-43: counter-parts cost of one branch.
costo_repuestos_mostrador(df_sucursal) ==
    LET ventas_re == DeTipo(df_sucursal, "RE")
        rep       == IF Len(ventas_re) > 0
                     THEN SumNullable(Col(ventas_re, "repuestos")) ELSE 0
        base      == IF rep = 0
                     THEN (IF Len(ventas_re) > 0
                           THEN SumSeq(Col(ventas_re, "total")) ELSE 0)
                     ELSE rep
    IN  Pct(base, COSTO_PORCENTAJE)

\* Lines 70-79: service-embedded parts cost of one branch.
costo_repuestos_servicios(df_sucursal) ==
    LET ventas_se == DeTipo(df_sucursal, "SE")
        rep       == SumNullable(Col(ventas_se, "repuestos"))
        base      == IF rep = 0
                     THEN Pct(SumSeq(Col(ventas_se, "total")), APROX_REPUESTOS_SE)
                     ELSE rep
    IN  Pct(base, COSTO_PORCENTAJE)

\* Lines 50-67.
RegistroMostrador(s, costo) ==
    [id |-> "AUTO_REP", sucursal |-> s, area |-> "REPUESTOS",
     pct_servicios |-> 0, pct_repuestos |-> 100,
     tipo |-> "VARIABLE", clasificacion |-> CLASIF_MOSTRADOR,
     proveedor |-> "JOHN DEERE", total_usd |-> costo, total_pct |-> costo,
     total_pct_se |-> 0, total_pct_re |-> costo, automatico |-> TRUE]

\* Mutant of RegistroServicios: the cost is also charged to the parts share.
RegistroServicios_DobleImputacion(s, costo) ==
    [id |-> "AUTO_SERV", sucursal |-> s, area |-> "SERVICIO",
     pct_servicios |-> 100, pct_repuestos |-> 0,
     tipo |-> "VARIABLE", clasificacion |-> CLASIF_SERVICIOS,
     proveedor |-> "JOHN DEERE", total_usd |-> costo, total_pct |-> costo,
     total_pct_se |-> costo, total_pct_re |-> costo, automatico |-> TRUE]

\* Lines 86-103.
RegistroServicios(s, costo) ==
    [id |-> "AUTO_SERV", sucursal |-> s, area |-> "SERVICIO",
     pct_servicios |-> 100, pct_repuestos |-> 0,
     tipo |-> "VARIABLE", clasificacion |-> CLASIF_SERVICIOS,
     proveedor |-> "JOHN DEERE", total_usd |-> costo, total_pct |-> costo,
     total_pct_se |-> costo, total_pct_re |-> 0, automatico |-> TRUE]

\* Lines 45 and 81: a record is emitted only for a strictly positive cost.
EmiteRegistro(costo) == costo > 0

\* Lines 31-103: the body of the loop for one branch.
GastosDeSucursal(ventas, s) ==
    LET df_sucursal == DeSucursal(ventas, s)
        cm == costo_repuestos_mostrador(df_sucursal)
        cs == costo_repuestos_servicios(df_sucursal)
    IN  (IF EmiteRegistro(cm) THEN <<RegistroMostrador(s, cm)>> ELSE <<>>)
        \o (IF EmiteRegistro(cs) THEN <<RegistroServicios(s, cs)>> ELSE <<>>)

RECURSIVE GastosDeSucursales(_, _)
GastosDeSucursales(ventas, ss) ==
    IF ss = <<>> THEN <<>>
    ELSE GastosDeSucursal(ventas, Head(ss)) \o GastosDeSucursales(ventas, Tail(ss))

\* Lines 11-105 as a function of the rows get_ventas returns.
obtener_gastos_automaticos(ventas) ==
    IF Len(ventas) = 0 THEN <<>>
    ELSE LET v == DropNaT(ventas) IN GastosDeSucursales(v, Sucursales(v))

\* Mutant of SinAutomaticos: only one of the two labels is excluded.
SinAutomaticos_SoloServicios(gastos) ==
    SelectSeq(gastos, LAMBDA g : g.clasificacion # CLASIF_SERVICIOS)

\* Line 125: df_gastos[~df_gastos['clasificacion'].isin(...)]
SinAutomaticos(gastos) ==
    SelectSeq(gastos, LAMBDA g : g.clasificacion \notin clasificaciones_automaticas)

\* Lines 131-140: pd.concat([df_gastos, df_gastos_automaticos]).
Combinar(registrados, automaticos) == registrados \o automaticos

\* Lines 143-154: the totals of the merged ledger.
Totales(registrados, automaticos, todos) ==
    [gastos_registrados     |-> registrados,
     gastos_automaticos     |-> automaticos,
     gastos_todos           |-> todos,
     gastos_postventa_total |-> SumSeq(Col(todos, "total_pct_se"))
                                 + SumSeq(Col(todos, "total_pct_re")),
     gastos_se_total        |-> SumSeq(Col(todos, "total_pct_se")),
     gastos_re_total        |-> SumSeq(Col(todos, "total_pct_re"))]

\* Lines 107-154 as a function of the rows get_gastos and get_ventas return.
obtener_gastos_totales_con_automaticos(gastos, ventas) ==
    LET reg  == SinAutomaticos(gastos)
        auto == obtener_gastos_automaticos(ventas)
    IN  Totales(reg, auto, Combinar(reg, auto))

-----------------------------------------------------------------------------
(* SpecMerge: obtener_gastos_totales_con_automaticos, step by step.         *)

MaxVentasMerge == 2
MaxGastos == 2

SucursalesModelo == {"A", "B"}

Venta(f, s, c, t, r, tot) ==
    [fecha |-> f, sucursal |-> s, cliente |-> c, tipo_re_se |-> t,
     repuestos |-> r, total |-> tot]

\* Sales rows of the allocator runs: a sale with no parts sub-amount, a sale
\* with parts and labour, a parts credit note; a row whose date does not
\* parse and a row with no branch.
VentasMerge ==
    {Venta(1, s, "c1", t, m[1], m[2]) :
        s \in SucursalesModelo, t \in {"RE", "SE"},
        m \in {<<NULL, 1000>>, <<Val(1000), 2000>>, <<Val(-1000), -1000>>}}
    \cup {Venta(NaT, "A", "c1", "RE", Val(1000), 1000),
          Venta(1, NA, "c1", "RE", Val(1000), 1000)}

GastoManual(s, c) ==
    [id |-> "MANUAL", sucursal |-> s, area |-> "POSTVENTA",
     pct_servicios |-> 25, pct_repuestos |-> 75,
     tipo |-> "FIJO", clasificacion |-> c,
     proveedor |-> "OTRO", total_usd |-> 400, total_pct |-> 400,
     total_pct_se |-> 100, total_pct_re |-> 300, automatico |-> FALSE]

GastosManuales ==
    {GastoManual("A", CLASIF_MOSTRADOR), GastoManual("B", CLASIF_MOSTRADOR),
     GastoManual("A", CLASIF_SERVICIOS), GastoManual("A", "ALQUILER")}

SinResultado == [gastos_todos |-> <<>>]

InitMerge ==
    /\ SinKpi /\ SinResumen
    /\ db \in [ventas : SeqsUpTo(VentasMerge, MaxVentasMerge),
                gastos : SeqsUpTo(GastosManuales, MaxGastos)]
    /\ pc = "merge_get_gastos"
    /\ df_ventas = <<>>
    /\ df_gastos = <<>>
    /\ gastos_automaticos = <<>>
    /\ gastos_totales_ctx = SinResultado
    /\ pendientes = <<>>
    /\ caps = <<>> /\ predicciones = <<>> /\ metodos_usados = <<>>
    /\ intentados = <<>> /\ prediccion = <<>>
    /\ entorno = <<>> /\ alertas_criticas = <<>>
    /\ anomalias = <<>>

\* gastos_automaticos.py 115-125
MergeGetGastos ==
    /\ pc = "merge_get_gastos"
    /\ UNCHANGED <<kpiVars, summaryVars>>
    /\ df_gastos' = IF Len(db.gastos) > 0 THEN SinAutomaticos(db.gastos)
                                          ELSE db.gastos
    /\ pc' = "auto_get_ventas"
    /\ UNCHANGED <<db, df_ventas, pendientes>>
    /\ UNCHANGED <<mergeVars, forecastVars, alertVars, anomalyVars>>

\* gastos_automaticos.py 16-29
AutoGetVentas ==
    /\ pc = "auto_get_ventas"
    /\ UNCHANGED <<kpiVars, summaryVars>>
    /\ IF Len(db.ventas) = 0
       THEN /\ pc' = "merge_combinar"
            /\ UNCHANGED <<df_ventas, pendientes>>
       ELSE /\ df_ventas' = DropNaT(db.ventas)
            /\ pendientes' = Sucursales(DropNaT(db.ventas))
            /\ pc' = "auto_sucursal"
    /\ UNCHANGED <<db, df_gastos>>
    /\ UNCHANGED <<mergeVars, forecastVars, alertVars, anomalyVars>>

\* gastos_automaticos.py 31-103: one iteration of the loop over branches
AutoSucursal ==
    /\ pc = "auto_sucursal"
    /\ UNCHANGED <<kpiVars, summaryVars>>
    /\ pendientes # <<>>
    /\ gastos_automaticos' =
          gastos_automaticos \o GastosDeSucursal(df_ventas, Head(pendientes))
    /\ pendientes' = Tail(pendientes)
    /\ UNCHANGED <<pc, db, df_ventas, df_gastos, gastos_totales_ctx>>
    /\ UNCHANGED <<forecastVars, alertVars, anomalyVars>>

\* gastos_automaticos.py 105
AutoReturn ==
    /\ pc = "auto_sucursal"
    /\ UNCHANGED <<kpiVars, summaryVars>>
    /\ pendientes = <<>>
    /\ pc' = "merge_combinar"
    /\ UNCHANGED <<db, df_ventas, df_gastos, pendientes>>
    /\ UNCHANGED <<mergeVars, forecastVars, alertVars, anomalyVars>>

\* gastos_automaticos.py 131-154
MergeCombinar ==
    /\ pc = "merge_combinar"
    /\ UNCHANGED <<kpiVars, summaryVars>>
    /\ gastos_totales_ctx' = Totales(df_gastos, gastos_automaticos,
                           IF Len(gastos_automaticos) > 0
                           THEN Combinar(df_gastos, gastos_automaticos)
                           ELSE df_gastos)
    /\ pc' = "merge_done"
    /\ UNCHANGED <<db, df_ventas, df_gastos, pendientes, gastos_automaticos>>
    /\ UNCHANGED <<forecastVars, alertVars, anomalyVars>>

NextMerge ==
    \/ MergeGetGastos
    \/ AutoGetVentas
    \/ AutoSucursal
    \/ AutoReturn
    \/ MergeCombinar

SpecMerge == InitMerge /\ [][NextMerge]_vars

\* Records of a ledger with classification c and branch s.
DeClasificacion(ledger, c, s) ==
    SelectSeq(ledger, LAMBDA g : g.clasificacion = c /\ g.sucursal = s)

\* The counter-parts cost the sales rows yield for branch s.
CostoMostradorDe(ventas, s) ==
    IF Len(ventas) = 0 THEN 0
    ELSE costo_repuestos_mostrador(DeSucursal(DropNaT(ventas), s))

HayManual(c) == \E i \in DOMAIN db.gastos : db.gastos[i].clasificacion = c

UnicoSintetico(s) ==
    LET e == DeClasificacion(gastos_totales_ctx.gastos_todos, CLASIF_MOSTRADOR, s)
    IN  /\ Len(e) = 1
        /\ e[1].automatico
        /\ e[1].total_usd = CostoMostradorDe(db.ventas, s)

ManualesSinteticosFuera ==
    \A i \in DOMAIN gastos_totales_ctx.gastos_todos :
        gastos_totales_ctx.gastos_todos[i].clasificacion \in clasificaciones_automaticas
            => gastos_totales_ctx.gastos_todos[i].automatico

\* C1 (as stated): after the merge, whenever the manual ledger holds a record
\* classified as the counter-parts cost and the sales yield a NON-ZERO
\* counter-parts cost for a branch, gastos_todos holds exactly one entry of
\* that classification for that branch, the synthetic one, and no manual
\* record with a synthetic classification survives.
C1_NonZeroCost ==
    pc = "merge_done" =>
        /\ ManualesSinteticosFuera
        /\ \A s \in SucursalesModelo :
              (HayManual(CLASIF_MOSTRADOR) /\ CostoMostradorDe(db.ventas, s) # 0)
                  => UnicoSintetico(s)

\* C1 (amended): the same for a STRICTLY POSITIVE counter-parts cost; a
\* branch whose cost is negative gets no entry of that classification.
C1_PositiveCost ==
    pc = "merge_done" =>
        /\ ManualesSinteticosFuera
        /\ \A s \in SucursalesModelo :
              (HayManual(CLASIF_MOSTRADOR) /\ CostoMostradorDe(db.ventas, s) > 0)
                  => UnicoSintetico(s)

C1_Witness ==
    /\ pc = "merge_done"
    /\ \E i \in DOMAIN db.gastos :
          /\ db.gastos[i].clasificacion = CLASIF_MOSTRADOR
          /\ db.gastos[i].sucursal = "A"
    /\ HayManual(CLASIF_SERVICIOS)
    /\ CostoMostradorDe(db.ventas, "A") > 0
    /\ UnicoSintetico("A")
    /\ Len(gastos_totales_ctx.gastos_registrados) < Len(db.gastos)

-----------------------------------------------------------------------------
(* Forecasting Ensemble: src/ai_analysis.py, predict_next_month_advanced    *)
(* and predict_next_month_simple.  A forecast value is a fraction           *)
(* [num, den] (den > 0) so that means are exact.                            *)

Frac(n, d) == [num |-> n, den |-> d]
FracEq(a, b) == a.num * b.den = b.num * a.den

MIN_PUNTOS == 7
MIN_PUNTOS_PROPHET == 30
MIN_PUNTOS_MODELO == 14
projection_days == 30
DIAS_RECIENTES == 14
CV_ALTA == 15
CV_MEDIA == 30
CV_SIMPLE_ALTA == 30
CV_SIMPLE_MEDIA == 60

\* date.weekday(): Monday is 0, Sunday is 6 (day 1 is a Monday).
weekday(d) == (d - 1) % 7

\* Lines 209-210: the mask over the horizon days that follow last_date.
MascaraDias(last_date, horizon) ==
    [i \in 1..horizon |-> IF weekday(last_date + i) < 6 THEN 1 ELSE 0]

\* Mutant of _future_working_mask: Saturdays are dropped with the Sundays.
_future_working_mask_LunesAViernes(last_date, horizon) ==
    LET mask == [i \in 1..horizon |-> IF weekday(last_date + i) < 5 THEN 1 ELSE 0]
    IN  [mask |-> mask, working_days |-> SumSeq(mask)]

\* Lines 204-215.
_future_working_mask(last_date, horizon) ==
    LET mask == MascaraDias(last_date, horizon)
        working_days == SumSeq(mask)
    IN  IF working_days = 0
        THEN [mask |-> [i \in 1..horizon |-> 1], working_days |-> horizon]
        ELSE [mask |-> mask, working_days |-> working_days]

MaxSeq(s) == CHOOSE x \in Range(s) : \A y \in Range(s) : y <= x
MinSeq(s) == CHOOSE x \in Range(s) : \A y \in Range(s) : x <= y

\* The distinct dates of a ledger in ascending order.
RECURSIVE SortedSet(_)
SortedSet(S) ==
    IF S = {} THEN <<>>
    ELSE LET m == CHOOSE x \in S : \A y \in S : x <= y
         IN  <<m>> \o SortedSet(S \ {m})

TotalDelDia(ventas, d) ==
    SumSeq(Col(SelectSeq(ventas, LAMBDA v : v.fecha = d), "total"))

\* Lines 648-649: groupby(fecha.dt.date)['total'].sum(), one row per day.
VentasDiarias(ventas) ==
    LET dias == SortedSet(Range(Col(ventas, "fecha")))
    IN  [i \in DOMAIN dias |-> [fecha |-> dias[i], total |-> TotalDelDia(ventas, dias[i])]]

\* Sum of (n*x_i - S)^2: n^3 times the population variance, n^2*(n-1) times
\* the sample variance.
RECURSIVE SumSqDev(_, _, _)
SumSqDev(s, n, S) ==
    IF s = <<>> THEN 0
    ELSE (n * Head(s) - S) * (n * Head(s) - S) + SumSqDev(Tail(s), n, S)

\* np.std(xs) / np.mean(xs) < p/100, for mean > 0 (population std).
CvPoblacionalMenor(xs, p) ==
    LET n == Len(xs)
        S == SumSeq(xs)
    IN  (10000 \div 25) * SumSqDev(xs, n, S) < ((p * p) \div 25) * n * S * S

\* Mutant of ConfianzaEnsemble: the spread is taken as abs(a-b) (the range)
\* instead of the population standard deviation.
ConfianzaEnsemble_Rango(xs) ==
    IF Len(xs) >= 2
    THEN IF SumSeq(xs) > 0
         THEN (IF 100 * Len(xs) * (MaxSeq(xs) - MinSeq(xs)) < CV_ALTA * SumSeq(xs)
               THEN "Alta"
               ELSE IF 100 * Len(xs) * (MaxSeq(xs) - MinSeq(xs)) < CV_MEDIA * SumSeq(xs)
               THEN "Media" ELSE "Baja")
         ELSE "Baja"
    ELSE "Media"

\* Lines 740-751: the confidence label of the ensemble.
ConfianzaEnsemble(xs) ==
    IF Len(xs) >= 2
    THEN IF SumSeq(xs) > 0
         THEN (IF CvPoblacionalMenor(xs, CV_ALTA) THEN "Alta"
               ELSE IF CvPoblacionalMenor(xs, CV_MEDIA) THEN "Media"
               ELSE "Baja")
         ELSE (IF 100 < CV_ALTA THEN "Alta"
               ELSE IF 100 < CV_MEDIA THEN "Media" ELSE "Baja")
    ELSE "Media"

\* Mutant of Promedio: the sum is divided by the number of strategies, not
\* by the number that succeeded.
Promedio_SobreTres(xs) == Frac(SumSeq(xs), 3)

\* Line 737: np.mean(predicciones).
Promedio(xs) == Frac(SumSeq(xs), Len(xs))

\* Lines 736-769: the result built from the strategies that succeeded.
ResultadoEnsemble(xs, metodos, working_days) ==
    [prediccion |-> Val(Promedio(xs)),
     confianza  |-> ConfianzaEnsemble(xs),
     metodo     |-> metodos,
     promedio_diario_habil |->
         Val(Frac(Promedio(xs).num, Promedio(xs).den * working_days)),
     dias_habiles |-> Val(working_days),
     horizonte_dias |-> Val(projection_days),
     predicciones_individuales |-> [i \in DOMAIN metodos |-> <<metodos[i], xs[i]>>]]

\* Lines 777-782 and 792-797: the 'needs more data' result.
SinPrediccion ==
    [prediccion |-> NULL, confianza |-> "Baja", metodo |-> <<"Promedio Simple">>,
     promedio_diario_habil |-> NULL,
     dias_habiles |-> NULL, horizonte_dias |-> NULL,
     predicciones_individuales |-> <<>>]

\* Lines 788-789: the rows of the trailing window.
VentasRecientes(ventas) ==
    LET fecha_limite == MaxSeq(Col(ventas, "fecha")) - DIAS_RECIENTES
    IN  SelectSeq(ventas, LAMBDA v : v.fecha > fecha_limite)

\* Lines 808-816: std of the daily sums (sample std, NaN for one day) over
\* promedio_diario = T/D compared with the thresholds.
ConfianzaSimple(recientes, dias_activos) ==
    LET ys == Col(VentasDiarias(recientes), "total")
        m  == Len(ys)
        T  == SumSeq(ys)
        D  == dias_activos
        menor(p) == 100 * D * D * SumSqDev(ys, m, T)
                        < ((p * p) \div 100) * T * T * m * m * (m - 1)
    IN  IF T > 0
        THEN (IF m < 2 THEN "Baja"
              ELSE IF menor(CV_SIMPLE_ALTA) THEN "Alta"
              ELSE IF menor(CV_SIMPLE_MEDIA) THEN "Media"
              ELSE "Baja")
        ELSE (IF 100 < CV_SIMPLE_ALTA THEN "Alta"
              ELSE IF 100 < CV_SIMPLE_MEDIA THEN "Media" ELSE "Baja")

\* Lines 774-829.
predict_next_month_simple(ventas) ==
    IF Len(ventas) < MIN_PUNTOS THEN SinPrediccion
    ELSE LET recientes == VentasRecientes(ventas)
         IN  IF Len(recientes) = 0 THEN SinPrediccion
             ELSE LET fechas == Col(recientes, "fecha")
                      dias_activos == MaxSeq(fechas) - MinSeq(fechas) + 1
                      T  == SumSeq(Col(recientes, "total"))
                      wm == _future_working_mask(MaxSeq(fechas), projection_days)
                  IN  [prediccion |-> Val(Frac(T * wm.working_days, dias_activos)),
                       confianza  |-> ConfianzaSimple(recientes, dias_activos),
                       metodo     |-> <<"Promedio Simple">>,
                       promedio_diario_habil |->
                           Val(IF wm.working_days = projection_days
                               THEN Frac(T, dias_activos)
                               ELSE Frac(T * wm.working_days,
                                         dias_activos * wm.working_days)),
                       dias_habiles |-> Val(wm.working_days),
                       horizonte_dias |-> Val(projection_days),
                       predicciones_individuales |-> <<>>]

\* Lines 675-676, 695-696, 727-728: np.sum(forecast * working_mask).
RECURSIVE SumaEnmascarada(_, _)
SumaEnmascarada(forecast, mask) ==
    IF forecast = <<>> THEN 0
    ELSE Head(forecast) * Head(mask) + SumaEnmascarada(Tail(forecast), Tail(mask))

\* Lines 641 and 651: too few records or too few daily points.
UsaSimple(ventas) ==
    \/ Len(ventas) < MIN_PUNTOS
    \/ Len(VentasDiarias(ventas)) < MIN_PUNTOS

\* Line 661.
PuedeProphet(ventas, flags) ==
    Len(VentasDiarias(ventas)) >= MIN_PUNTOS_PROPHET /\ flags.PROPHET_AVAILABLE

\* Mutant of PuedeModelo: the strategies run from MIN_PUNTOS daily points.
PuedeModelo_DesdeSiete(ventas, disponible) ==
    Len(VentasDiarias(ventas)) >= MIN_PUNTOS /\ disponible

\* Lines 684 and 715.
PuedeModelo(ventas, disponible) ==
    Len(VentasDiarias(ventas)) >= MIN_PUNTOS_MODELO /\ disponible

\* The daily forecast a library returns for the horizon, at a flat level.
ForecastDe(nivel) == [i \in 1..projection_days |-> nivel]

\* The scalar a strategy contributes: its daily forecast masked and summed.
PrediccionDe(nivel, ventas) ==
    LET last_date == MaxSeq(Col(VentasDiarias(ventas), "fecha"))
    IN  SumaEnmascarada(ForecastDe(nivel),
                        _future_working_mask(last_date, projection_days).mask)

DiasHabiles(ventas) ==
    _future_working_mask(MaxSeq(Col(VentasDiarias(ventas), "fecha")),
                         projection_days).working_days

-----------------------------------------------------------------------------
(* SpecForecast: predict_next_month_advanced, one step per strategy.        *)

MaxPorDia == 2

\* Daily levels a fitted model may forecast (in hundreds of USD); NULL is a
\* fit that raises.
Niveles == {5, 6, 7, 10, -5}
ResultadosDeAjuste == {NULL} \cup {Val(n) : n \in Niveles}

\* Ledger sizes in daily points: below, at and above each threshold.
PuntosDiarios ==
    {3} \cup {t - 1 : t \in {MIN_PUNTOS, MIN_PUNTOS_MODELO, MIN_PUNTOS_PROPHET}}
        \cup {MIN_PUNTOS, MIN_PUNTOS_MODELO, MIN_PUNTOS_PROPHET}

\* nd daily points, porDia records a day, one point every 'paso' days from
\* 'inicio'; totals flat or alternating by day.
LedgerSerie(nd, porDia, paso, inicio, patron) ==
    [i \in 1..(nd * porDia) |->
        LET j == ((i - 1) \div porDia) + 1
        IN  Venta(inicio + (j - 1) * paso, "A", "c1", "SE", NULL,
                  IF patron = "plano" THEN 2 ELSE (IF j % 2 = 1 THEN 1 ELSE 3))]

LedgersForecast ==
    {LedgerSerie(nd, k, paso, inicio, patron) :
        nd \in PuntosDiarios, k \in 1..MaxPorDia, paso \in {1, 3},
        inicio \in {1, 5}, patron \in {"plano", "alterno"}}

Capacidades ==
    [PROPHET_AVAILABLE : BOOLEAN, STATSMODELS_AVAILABLE : BOOLEAN,
     SKLEARN_AVAILABLE : BOOLEAN]

InitForecast ==
    /\ SinKpi /\ SinResumen
    /\ df_ventas \in LedgersForecast
    /\ caps \in Capacidades
    /\ pc = "fc_inicio"
    /\ predicciones = <<>> /\ metodos_usados = <<>>
    /\ intentados = <<>> /\ prediccion = <<>>
    /\ db = <<>> /\ df_gastos = <<>> /\ gastos_automaticos = <<>>
    /\ gastos_totales_ctx = SinResultado /\ pendientes = <<>>
    /\ entorno = <<>> /\ alertas_criticas = <<>>
    /\ anomalias = <<>>

Intento(estrategia, o) == [estrategia |-> estrategia, resultado |-> o]

\* ai_analysis.py 641-658
FcInicio ==
    /\ pc = "fc_inicio"
    /\ UNCHANGED <<kpiVars, summaryVars>>
    /\ IF UsaSimple(df_ventas)
       THEN /\ prediccion' = predict_next_month_simple(df_ventas)
            /\ pc' = "fc_fin"
       ELSE /\ pc' = "fc_prophet"
            /\ UNCHANGED prediccion
    /\ UNCHANGED <<db, df_ventas, df_gastos, pendientes>>
    /\ UNCHANGED <<caps, predicciones, metodos_usados, intentados>>
    /\ UNCHANGED <<mergeVars, alertVars, anomalyVars>>

\* One guarded fit: on success the masked sum and the method name are
\* appended; a fit that raises is caught and leaves both lists alone.
Ajustar(estrategia, nombre, o, siguiente) ==
    /\ intentados' = Append(intentados, Intento(estrategia, o))
    /\ IF o # NULL
       THEN /\ predicciones' = Append(predicciones, PrediccionDe(o[1], df_ventas))
            /\ metodos_usados' = Append(metodos_usados, nombre)
       ELSE UNCHANGED <<predicciones, metodos_usados>>
    /\ pc' = siguiente

\* ai_analysis.py 661-681
FcProphet ==
    /\ pc = "fc_prophet"
    /\ UNCHANGED <<kpiVars, summaryVars>>
    /\ IF PuedeProphet(df_ventas, caps)
       THEN \E o \in ResultadosDeAjuste : Ajustar("Prophet", "Prophet", o, "fc_arima")
       ELSE /\ pc' = "fc_arima"
            /\ UNCHANGED <<predicciones, metodos_usados, intentados>>
    /\ UNCHANGED <<db, df_ventas, df_gastos, pendientes, caps, prediccion>>
    /\ UNCHANGED <<mergeVars, alertVars, anomalyVars>>

\* ai_analysis.py 684-700: order (1,1,1)
FcArima ==
    /\ pc = "fc_arima"
    /\ UNCHANGED <<kpiVars, summaryVars>>
    /\ IF PuedeModelo(df_ventas, caps.STATSMODELS_AVAILABLE)
       THEN \E o \in ResultadosDeAjuste :
                Ajustar("ARIMA(1,1,1)", "ARIMA", o,
                        IF o # NULL THEN "fc_lineal" ELSE "fc_arima_simple")
       ELSE /\ pc' = "fc_lineal"
            /\ UNCHANGED <<predicciones, metodos_usados, intentados>>
    /\ UNCHANGED <<db, df_ventas, df_gastos, pendientes, caps, prediccion>>
    /\ UNCHANGED <<mergeVars, alertVars, anomalyVars>>

\* ai_analysis.py 700-710: order (1,0,0) after (1,1,1) raised
FcArimaSimple ==
    /\ pc = "fc_arima_simple"
    /\ UNCHANGED <<kpiVars, summaryVars>>
    /\ \E o \in ResultadosDeAjuste : Ajustar("ARIMA(1,0,0)", "ARIMA", o, "fc_lineal")
    /\ UNCHANGED <<db, df_ventas, df_gastos, pendientes, caps, prediccion>>
    /\ UNCHANGED <<mergeVars, alertVars, anomalyVars>>

\* ai_analysis.py 715-733
FcLineal ==
    /\ pc = "fc_lineal"
    /\ UNCHANGED <<kpiVars, summaryVars>>
    /\ IF PuedeModelo(df_ventas, caps.SKLEARN_AVAILABLE)
       THEN \E o \in ResultadosDeAjuste :
                Ajustar("Regresion Lineal", "Regresion Lineal", o, "fc_combinar")
       ELSE /\ pc' = "fc_combinar"
            /\ UNCHANGED <<predicciones, metodos_usados, intentados>>
    /\ UNCHANGED <<db, df_ventas, df_gastos, pendientes, caps, prediccion>>
    /\ UNCHANGED <<mergeVars, alertVars, anomalyVars>>

\* ai_analysis.py 736-772
FcCombinar ==
    /\ pc = "fc_combinar"
    /\ UNCHANGED <<kpiVars, summaryVars>>
    /\ prediccion' =
          IF predicciones # <<>>
          THEN ResultadoEnsemble(predicciones, metodos_usados, DiasHabiles(df_ventas))
          ELSE predict_next_month_simple(df_ventas)
    /\ pc' = "fc_fin"
    /\ UNCHANGED <<db, df_ventas, df_gastos, pendientes>>
    /\ UNCHANGED <<caps, predicciones, metodos_usados, intentados>>
    /\ UNCHANGED <<mergeVars, alertVars, anomalyVars>>

NextForecast ==
    \/ FcInicio
    \/ FcProphet
    \/ FcArima
    \/ FcArimaSimple
    \/ FcLineal
    \/ FcCombinar

SpecForecast == InitForecast /\ [][NextForecast]_vars

-----------------------------------------------------------------------------
(* Claims about the Forecasting Ensemble.                                   *)

Terminado == pc = "fc_fin"
NPuntos == Len(VentasDiarias(df_ventas))

\* num/den < p/100 for the real numbers num, den (den # 0).
RazonMenor(num, den, p) ==
    IF den > 0 THEN 100 * num < p * den
    ELSE IF den < 0 THEN 100 * num > p * den
    ELSE FALSE

DosExitosas == Terminado /\ Len(predicciones) = 2

PronosticoEsMediaDeDos ==
    FracEq(prediccion.prediccion[1], Frac(predicciones[1] + predicciones[2], 2))

\* C2 (as stated): when exactly two strategies succeed with outputs a and b
\* the forecast is (a+b)/2 and confidence is High iff
\* abs(a-b) / ((a+b)/2) < 0.15.
C2_RangeOverMean ==
    DosExitosas =>
        LET a == predicciones[1]
            b == predicciones[2]
        IN  /\ PronosticoEsMediaDeDos
            /\ (prediccion.confianza = "Alta")
                 <=> RazonMenor(2 * Abs(a - b), a + b, CV_ALTA)

\* C2 (amended): when exactly two strategies succeed with outputs a and b
\* the forecast is (a+b)/2 and confidence is High iff the mean is positive
\* and (abs(a-b)/2) / ((a+b)/2) < 0.15, the population standard deviation
\* of the two outputs over their mean.
C2_StdOverMean ==
    DosExitosas =>
        LET a == predicciones[1]
            b == predicciones[2]
        IN  /\ PronosticoEsMediaDeDos
            /\ (prediccion.confianza = "Alta")
                 <=> (a + b > 0 /\ RazonMenor(Abs(a - b), a + b, CV_ALTA))

C2_Witness ==
    /\ DosExitosas
    /\ predicciones[1] # predicciones[2]
    /\ prediccion.confianza = "Alta"
    /\ ~ RazonMenor(2 * Abs(predicciones[1] - predicciones[2]),
                    predicciones[1] + predicciones[2], CV_ALTA)

\* The outputs of the fits that succeeded, in the order they were run.
RECURSIVE ExitosDe(_)
ExitosDe(hist) ==
    IF hist = <<>> THEN <<>>
    ELSE (IF Head(hist).resultado = NULL THEN <<>> ELSE <<Head(hist).resultado[1]>>)
         \o ExitosDe(Tail(hist))

Intentada(e) == \E i \in DOMAIN intentados : intentados[i].estrategia = e
Fallida(e) ==
    \E i \in DOMAIN intentados :
        intentados[i].estrategia = e /\ intentados[i].resultado = NULL

Cuenta(s, x) == Cardinality({i \in DOMAIN s : s[i] = x})

\* C3: the forecast is the arithmetic mean of exactly the outputs of the
\* strategies that succeeded; a strategy that is unavailable or whose fit
\* fails adds no value and the strategies after it still run; with exactly
\* one success confidence is Medium; the autoregressive strategy adds at
\* most one value, trying (1,0,0) only after (1,1,1) failed.
C3_MeanOfSucceeded ==
    Terminado /\ ~ UsaSimple(df_ventas) =>
        /\ Len(predicciones) = Len(ExitosDe(intentados))
        /\ \A i \in DOMAIN predicciones :
              predicciones[i] = DiasHabiles(df_ventas) * ExitosDe(intentados)[i]
        /\ predicciones # <<>> =>
              /\ prediccion.prediccion # NULL
              /\ prediccion.prediccion[1].den > 0
              /\ FracEq(prediccion.prediccion[1],
                        Frac(SumSeq(predicciones), Len(predicciones)))
              /\ prediccion.metodo = metodos_usados
        /\ Len(predicciones) = 1 => prediccion.confianza = "Media"
        /\ Intentada("Prophet") <=> PuedeProphet(df_ventas, caps)
        /\ Intentada("ARIMA(1,1,1)")
              <=> (NPuntos >= MIN_PUNTOS_MODELO /\ caps.STATSMODELS_AVAILABLE)
        /\ Intentada("Regresion Lineal")
              <=> (NPuntos >= MIN_PUNTOS_MODELO /\ caps.SKLEARN_AVAILABLE)
        /\ Intentada("ARIMA(1,0,0)") <=> Fallida("ARIMA(1,1,1)")
        /\ Cuenta(metodos_usados, "ARIMA") <= 1

C3_Witness ==
    /\ Terminado
    /\ Fallida("Prophet")
    /\ Fallida("ARIMA(1,1,1)")
    /\ Intentada("ARIMA(1,0,0)") /\ ~ Fallida("ARIMA(1,0,0)")
    /\ Fallida("Regresion Lineal")
    /\ Len(predicciones) = 1
    /\ prediccion.confianza = "Media"
    /\ metodos_usados = <<"ARIMA">>

\* C4: below 7 daily points the Simple Average method answers and no
\* strategy is attempted; the seasonal strategy is attempted only with at
\* least 30 daily points and its library, the autoregressive and linear
\* ones only with at least 14; when no strategy succeeded, as in every
\* case with 7 to 13 daily points, the result is the Simple Average one.
C4_MethodSelection ==
    Terminado =>
        /\ NPuntos < MIN_PUNTOS =>
              /\ intentados = <<>>
              /\ prediccion.metodo = <<"Promedio Simple">>
        /\ Intentada("Prophet") =>
              (NPuntos >= MIN_PUNTOS_PROPHET /\ caps.PROPHET_AVAILABLE)
        /\ \A e \in {"ARIMA(1,1,1)", "ARIMA(1,0,0)", "Regresion Lineal"} :
              Intentada(e) => NPuntos >= MIN_PUNTOS_MODELO
        /\ (NPuntos >= MIN_PUNTOS /\ NPuntos < MIN_PUNTOS_MODELO) =>
              predicciones = <<>>
        /\ predicciones = <<>> =>
              /\ prediccion.metodo = <<"Promedio Simple">>
              /\ prediccion = predict_next_month_simple(df_ventas)
              /\ NPuntos >= MIN_PUNTOS => prediccion.prediccion # NULL

C4_Witness ==
    /\ Terminado
    /\ NPuntos >= MIN_PUNTOS /\ NPuntos < MIN_PUNTOS_MODELO
    /\ caps.STATSMODELS_AVAILABLE /\ caps.SKLEARN_AVAILABLE
    /\ prediccion.metodo = <<"Promedio Simple">>
    /\ prediccion.prediccion # NULL

-----------------------------------------------------------------------------
(* Critical Alert Engine: src/ai_analysis.py, detect_critical_alerts.       *)

MIN_VENTAS_CAIDA == 14
DIAS_VENTANA == 7
UMBRAL_CAIDA == 70
UMBRAL_MARGEN == 5
UMBRAL_DIAS_SIN_VENTA == 10
UMBRAL_CONCENTRACION == 80

\* Lines 48-52: a column that does not exist sums to 0.
_safe_sum_column(df, column) ==
    IF df = <<>> \/ column \notin DOMAIN df[1] THEN 0 ELSE SumSeq(Col(df, column))

\* Lines 70-85: totals taken from the expense ledger that was passed.
ContextoDeLedger(gastos) ==
    LET total_se == _safe_sum_column(gastos, "total_pct_se")
        total_re == _safe_sum_column(gastos, "total_pct_re")
        t0 == total_se + total_re
        t1 == IF t0 = 0 THEN _safe_sum_column(gastos, "monto") ELSE t0
        t2 == IF t1 = 0 THEN _safe_sum_column(gastos, "total_pct") ELSE t1
    IN  [gastos_registrados |-> gastos, gastos_automaticos |-> <<>>,
         gastos_todos |-> gastos, gastos_postventa_total |-> t2,
         gastos_se_total |-> total_se, gastos_re_total |-> total_re]

\* Lines 55-87: the context, else the passed ledger, else a query.
_resolve_gastos_context(gastos, contexto, base) ==
    IF contexto # NULL THEN contexto[1]
    ELSE IF Len(gastos) > 0 THEN ContextoDeLedger(gastos)
    ELSE obtener_gastos_totales_con_automaticos(base.gastos, base.ventas)

TotalIngresos(ventas) == SumSeq(Col(ventas, "total"))

FechaMax(ventas) == MaxSeq(Col(ventas, "fecha"))

\* Line 237.
ultimos_7_dias(ventas) ==
    SelectSeq(ventas, LAMBDA v : v.fecha > FechaMax(ventas) - DIAS_VENTANA)

\* Lines 238-241.
anteriores_7_dias(ventas) ==
    SelectSeq(ventas, LAMBDA v :
        /\ v.fecha > FechaMax(ventas) - 2 * DIAS_VENTANA
        /\ v.fecha <= FechaMax(ventas) - DIAS_VENTANA)

\* Mutant of CaidaDrastica: the boundary is inclusive.
CaidaDrastica_Inclusiva(ventas) ==
    /\ Len(ventas) >= MIN_VENTAS_CAIDA
    /\ Len(anteriores_7_dias(ventas)) > 0 /\ Len(ultimos_7_dias(ventas)) > 0
    /\ LET ventas_ultimas == TotalIngresos(ultimos_7_dias(ventas))
           ventas_anteriores == TotalIngresos(anteriores_7_dias(ventas))
       IN  /\ ventas_anteriores > 0
           /\ (ventas_anteriores - ventas_ultimas) * 100
                 >= UMBRAL_CAIDA * ventas_anteriores

\* Lines 236-249: caida_pct = (anteriores - ultimas) / anteriores * 100 > 70.
CaidaDrastica(ventas) ==
    /\ Len(ventas) >= MIN_VENTAS_CAIDA
    /\ Len(anteriores_7_dias(ventas)) > 0 /\ Len(ultimos_7_dias(ventas)) > 0
    /\ LET ventas_ultimas == TotalIngresos(ultimos_7_dias(ventas))
           ventas_anteriores == TotalIngresos(anteriores_7_dias(ventas))
       IN  /\ ventas_anteriores > 0
           /\ (ventas_anteriores - ventas_ultimas) * 100
                 > UMBRAL_CAIDA * ventas_anteriores

\* Lines 259-263.
GastosSuperan(ventas, gastos, gastos_postventa_total) ==
    /\ Len(gastos) > 0
    /\ gastos_postventa_total > TotalIngresos(ventas)

\* Lines 274-280: margen_pct = (ingresos - gastos) / ingresos * 100.
MargenCritico(ventas, gastos, gastos_postventa_total) ==
    /\ Len(gastos) > 0
    /\ TotalIngresos(ventas) > 0
    /\ (TotalIngresos(ventas) - gastos_postventa_total) * 100
          < UMBRAL_MARGEN * TotalIngresos(ventas)
    /\ (TotalIngresos(ventas) - gastos_postventa_total) * 100 > 0

\* Mutant of Referencia: the wall clock is always used.
Referencia_Ahora(e) == e.now

\* Line 291: referencia_corte or (to_datetime(fecha_fin) if fecha_fin else now).
Referencia(e) ==
    IF e.referencia_corte # NULL THEN e.referencia_corte[1]
    ELSE IF e.fecha_fin # NULL THEN e.fecha_fin[1]
    ELSE e.now

\* Lines 292-293.
SinVentasRecientes(ventas, e) ==
    Referencia(e) - FechaMax(ventas) > UMBRAL_DIAS_SIN_VENTA

\* groupby('cliente')['total'].sum(): one total per client.
TotalDeCliente(ventas, c) ==
    SumSeq(Col(SelectSeq(ventas, LAMBDA v : v.cliente = c), "total"))

\* Line 304: groupby('cliente') leaves out the sales that name no client.
ClientesNombrados(ventas) == Range(Col(ventas, "cliente")) \ {NA}

\* Line 304: the largest per-client total (.iloc[0] of the sorted totals).
top_cliente(ventas) ==
    LET cs == ClientesNombrados(ventas)
    IN  CHOOSE t \in {TotalDeCliente(ventas, c) : c \in cs} :
            \A c \in cs : TotalDeCliente(ventas, c) <= t

\* Mutant of AltaDependencia: the boundary is inclusive.
AltaDependencia_Inclusiva(ventas) ==
    /\ TotalIngresos(ventas) > 0
    /\ top_cliente(ventas) * 100 >= UMBRAL_CONCENTRACION * TotalIngresos(ventas)

\* Lines 304-308: concentracion = top / total * 100 if total > 0 else 0.
AltaDependencia(ventas) ==
    /\ TotalIngresos(ventas) > 0
    /\ top_cliente(ventas) * 100 > UMBRAL_CONCENTRACION * TotalIngresos(ventas)

Alerta(titulo, severidad, ahora) ==
    [tipo |-> "CRITICA", titulo |-> titulo, severidad |-> severidad,
     fecha_deteccion |-> ahora]

ALERTA_CAIDA == "Caida Drastica de Ventas"
ALERTA_GASTOS == "Gastos Superan Ingresos"
ALERTA_MARGEN == "Margen Critico"
ALERTA_SIN_VENTAS == "Sin Ventas Recientes"
ALERTA_CLIENTE == "Alta Dependencia de Cliente"

-----------------------------------------------------------------------------
(* SpecAlerts: detect_critical_alerts, one step per rule.                   *)

MaxExtraVentas == 1

\* The date of the latest sale of the ledgers below.
FechaBase == 2 * DIAS_VENTANA + 6

\* Per-record totals of the previous and of the latest window: drops of
\* 90%, 65%, exactly 70%, just above 70%, 75% (an 80% client share),
\* an 80.1% client share, an empty-valued previous window, a rise, and a
\* previous window of credit notes.
ParesDeTotales ==
    {<<1000, 100>>, <<1000, 350>>, <<1000, 300>>, <<1000, 299>>, <<1000, 250>>,
     <<801, 199>>, <<0, 100>>, <<100, 1000>>, <<-1000, 100>>}

\* n records: the first n/2 dated dPrev days before FechaBase with total p,
\* the others dated FechaBase with total u.  clientes: one client for all
\* sales, a second client for the later ones, no client on the later ones,
\* or no client on any sale (cliente is a nullable column).
LedgerAlertas(n, p, u, dPrev, clientes) ==
    [i \in 1..n |->
        IF i <= n \div 2
        THEN Venta(FechaBase - dPrev, "A",
                   IF clientes = "ninguno" THEN NA ELSE "c1", "RE", NULL, p)
        ELSE Venta(FechaBase, "A",
                   CASE clientes = "uno" -> "c1"
                     [] clientes = "dos" -> "c2"
                     [] OTHER -> NA,
                   "RE", NULL, u)]

TamanosAlertas ==
    {0, 1, MIN_VENTAS_CAIDA - 1} \cup
    {MIN_VENTAS_CAIDA + k : k \in 0..MaxExtraVentas}

LedgersAlertas ==
    {LedgerAlertas(n, m[1], m[2], DIAS_VENTANA, c) :
        n \in TamanosAlertas, m \in ParesDeTotales, c \in {"uno", "dos"}}
    \cup {LedgerAlertas(MIN_VENTAS_CAIDA, 1000, 100, 2 * DIAS_VENTANA, "dos")}
    \cup {LedgerAlertas(n, 1000, 100, DIAS_VENTANA, c) :
             n \in {1, MIN_VENTAS_CAIDA}, c \in {"parcial", "ninguno"}}

GastoDe(c, x) ==
    [id |-> "MANUAL", sucursal |-> "A", area |-> "POSTVENTA",
     pct_servicios |-> 0, pct_repuestos |-> 100,
     tipo |-> "FIJO", clasificacion |-> c,
     proveedor |-> "OTRO", total_usd |-> x, total_pct |-> x,
     total_pct_se |-> 0, total_pct_re |-> x, automatico |-> FALSE]

\* Expense totals around a revenue R: 40%, 95%, 96% and 100% of it, above it.
NivelesDeGasto(R) == {Pct(R, 40), Pct(R, 95), Pct(R, 96), R, R + 100}

\* Expense ledgers a caller passes: none, one ordinary manual record, or a
\* manual record carrying the counter-parts classification.
GastosPasados(R) ==
    {<<>>} \cup {<<GastoDe("ALQUILER", x)>> : x \in NivelesDeGasto(R)}
           \cup {<<GastoDe(CLASIF_MOSTRADOR, R + 100)>>}

Contexto(x) ==
    [gastos_registrados |-> <<>>, gastos_automaticos |-> <<>>,
     gastos_todos |-> <<>>, gastos_postventa_total |-> x,
     gastos_se_total |-> 0, gastos_re_total |-> x]

Entornos(R) ==
    [gastos_context   : {NULL, Val(Contexto(R + 100)), Val(Contexto(Pct(R, 96)))},
     fecha_fin        : {NULL, Val(FechaBase + UMBRAL_DIAS_SIN_VENTA + 1)},
     referencia_corte : {NULL, Val(FechaBase + UMBRAL_DIAS_SIN_VENTA),
                               Val(FechaBase + UMBRAL_DIAS_SIN_VENTA + 1)},
     now              : {FechaBase + UMBRAL_DIAS_SIN_VENTA,
                         FechaBase + UMBRAL_DIAS_SIN_VENTA + 1}]

InitAlerts ==
    /\ SinKpi /\ SinResumen
    /\ df_ventas \in LedgersAlertas
    /\ df_gastos \in GastosPasados(TotalIngresos(df_ventas))
    /\ db \in {[ventas |-> df_ventas, gastos |-> g] :
                 g \in {<<>>, <<GastoDe("ALQUILER", TotalIngresos(df_ventas) + 100)>>}}
    /\ entorno \in Entornos(TotalIngresos(df_ventas))
    /\ pc = "al_inicio"
    /\ gastos_totales_ctx = SinResultado
    /\ alertas_criticas = <<>>
    /\ gastos_automaticos = <<>> /\ pendientes = <<>>
    /\ caps = <<>> /\ predicciones = <<>> /\ metodos_usados = <<>>
    /\ intentados = <<>> /\ prediccion = <<>>
    /\ anomalias = <<>>

\* One rule: its alert is appended when its condition holds.
Regla(condicion, titulo, severidad, siguiente) ==
    /\ alertas_criticas' =
          IF condicion
          THEN Append(alertas_criticas, Alerta(titulo, severidad, entorno.now))
          ELSE alertas_criticas
    /\ pc' = siguiente
    /\ UNCHANGED <<db, df_ventas, df_gastos, pendientes, entorno>>
    /\ UNCHANGED <<mergeVars, forecastVars, anomalyVars>>

\* ai_analysis.py 226-233
AlInicio ==
    /\ pc = "al_inicio"
    /\ UNCHANGED <<kpiVars, summaryVars>>
    /\ gastos_totales_ctx' =
          _resolve_gastos_context(df_gastos, entorno.gastos_context, db)
    /\ pc' = IF Len(df_ventas) = 0 THEN "al_fin" ELSE "al_caida"
    /\ UNCHANGED <<db, df_ventas, df_gastos, pendientes, gastos_automaticos>>
    /\ UNCHANGED <<forecastVars, alertVars, anomalyVars>>

\* ai_analysis.py 235-256
AlCaida ==
    /\ pc = "al_caida"
    /\ UNCHANGED <<kpiVars, summaryVars>>
    /\ Regla(CaidaDrastica(df_ventas), ALERTA_CAIDA, "ALTA", "al_gastos")

\* ai_analysis.py 258-271
AlGastos ==
    /\ pc = "al_gastos"
    /\ UNCHANGED <<kpiVars, summaryVars>>
    /\ Regla(GastosSuperan(df_ventas, df_gastos,
                           gastos_totales_ctx.gastos_postventa_total),
             ALERTA_GASTOS, "ALTA", "al_margen")

\* ai_analysis.py 273-287
AlMargen ==
    /\ pc = "al_margen"
    /\ UNCHANGED <<kpiVars, summaryVars>>
    /\ Regla(MargenCritico(df_ventas, df_gastos,
                           gastos_totales_ctx.gastos_postventa_total),
             ALERTA_MARGEN, "MEDIA", "al_silencio")

\* ai_analysis.py 289-300
AlSilencio ==
    /\ pc = "al_silencio"
    /\ UNCHANGED <<kpiVars, summaryVars>>
    /\ Regla(SinVentasRecientes(df_ventas, entorno),
             ALERTA_SIN_VENTAS, "ALTA", "al_cliente")

\* ai_analysis.py 302-318: with no named client the grouped totals are
\* empty and .iloc[0] raises; the function then returns nothing.
AlConcentracion ==
    /\ pc = "al_cliente"
    /\ UNCHANGED <<kpiVars, summaryVars>>
    /\ IF ClientesNombrados(df_ventas) = {}
       THEN /\ pc' = "al_error"
            /\ UNCHANGED <<db, df_ventas, df_gastos, pendientes>>
            /\ UNCHANGED <<mergeVars, forecastVars, alertVars, anomalyVars>>
       ELSE Regla(AltaDependencia(df_ventas), ALERTA_CLIENTE, "MEDIA", "al_fin")

NextAlerts ==
    \/ AlInicio
    \/ AlCaida
    \/ AlGastos
    \/ AlMargen
    \/ AlSilencio
    \/ AlConcentracion

SpecAlerts == InitAlerts /\ [][NextAlerts]_vars

-----------------------------------------------------------------------------
(* Claims about the Critical Alert Engine.                                  *)

\* The engine is through: it returned its list or it raised.
AlertasListas == pc \in {"al_fin", "al_error"}

\* The list the caller receives: nothing when the engine raised.
AlertasDevueltas == IF pc = "al_fin" THEN alertas_criticas ELSE <<>>

Devueltas(titulo) ==
    Cardinality({i \in DOMAIN AlertasDevueltas : AlertasDevueltas[i].titulo = titulo})

Emitidas(titulo) ==
    Cardinality({i \in DOMAIN alertas_criticas : alertas_criticas[i].titulo = titulo})

Emitida(titulo, severidad) ==
    /\ Emitidas(titulo) = 1
    /\ \A i \in DOMAIN alertas_criticas :
          alertas_criticas[i].titulo = titulo
              => alertas_criticas[i].severidad = severidad

\* Revenue of the sales dated in (desde, hasta].
IngresosEntre(ventas, desde, hasta) ==
    SumSeq(Col(SelectSeq(ventas, LAMBDA v : v.fecha > desde /\ v.fecha <= hasta),
               "total"))

IngresosUltimaVentana ==
    IngresosEntre(df_ventas, FechaMax(df_ventas) - 7, FechaMax(df_ventas))
IngresosVentanaPrevia ==
    IngresosEntre(df_ventas, FechaMax(df_ventas) - 14, FechaMax(df_ventas) - 7)

C6_ClientConcentration ==
    AlertasListas =>
        IF /\ TotalIngresos(df_ventas) > 0
           /\ \E i \in DOMAIN df_ventas :
                 /\ df_ventas[i].cliente # NA
                 /\ 1000 * TotalDeCliente(df_ventas, df_ventas[i].cliente)
                       > 800 * TotalIngresos(df_ventas)
        THEN Emitida(ALERTA_CLIENTE, "MEDIA")
        ELSE Emitidas(ALERTA_CLIENTE) = 0

C6_Witness ==
    /\ pc = "al_fin"
    /\ TotalIngresos(df_ventas) > 0
    /\ \E i \in DOMAIN df_ventas :
          1000 * TotalDeCliente(df_ventas, df_ventas[i].cliente)
             = 801 * TotalIngresos(df_ventas)
    /\ Emitida(ALERTA_CLIENTE, "MEDIA")

\* The expense total the rule is specified on: automatically allocated plus
\* manual expense after the anti-duplication merge, for the way the expense
\* ledger reached the engine (a pre-computed context holds that total).
GastoTotalEspecificado ==
    IF entorno.gastos_context # NULL
    THEN entorno.gastos_context[1].gastos_postventa_total
    ELSE IF Len(df_gastos) > 0
    THEN obtener_gastos_totales_con_automaticos(df_gastos, df_ventas)
            .gastos_postventa_total
    ELSE obtener_gastos_totales_con_automaticos(db.gastos, db.ventas)
            .gastos_postventa_total

\* C7: the HIGH 'expenses exceed revenue' alert is emitted iff the total of
\* automatically allocated plus manual expense (after the merge) is
\* strictly greater than total revenue, whichever way the expense ledger
\* reaches the engine.
C7_ExpensesExceedRevenue ==
    AlertasListas =>
        IF GastoTotalEspecificado > TotalIngresos(df_ventas)
        THEN Emitida(ALERTA_GASTOS, "ALTA")
        ELSE Emitidas(ALERTA_GASTOS) = 0

\* The as-of date that was supplied, if any.
ReferenciaSuministrada ==
    IF entorno.referencia_corte # NULL THEN entorno.referencia_corte
    ELSE entorno.fecha_fin

Uno(b) == IF b THEN 1 ELSE 0

\* The five rule conditions as the rule table states them.
CondicionCaida ==
    /\ Len(df_ventas) >= 14
    /\ IngresosVentanaPrevia > 0
    /\ 100 * (IngresosVentanaPrevia - IngresosUltimaVentana)
          > 70 * IngresosVentanaPrevia
CondicionGastos == GastoTotalEspecificado > TotalIngresos(df_ventas)
CondicionMargen ==
    /\ TotalIngresos(df_ventas) > 0
    /\ 100 * (TotalIngresos(df_ventas) - GastoTotalEspecificado) > 0
    /\ 100 * (TotalIngresos(df_ventas) - GastoTotalEspecificado)
          < 5 * TotalIngresos(df_ventas)
CondicionSilencio ==
    /\ Len(df_ventas) > 0
    /\ (IF ReferenciaSuministrada # NULL
        THEN ReferenciaSuministrada[1] ELSE entorno.now) - FechaMax(df_ventas) > 10
CondicionCliente ==
    /\ TotalIngresos(df_ventas) > 0
    /\ \E i \in DOMAIN df_ventas :
          /\ df_ventas[i].cliente # NA
          /\ 100 * TotalDeCliente(df_ventas, df_ventas[i].cliente)
                > 80 * TotalIngresos(df_ventas)

\* C9: every rule whose condition holds emits exactly one alert, whatever
\* the other rules do and whatever the size of the sales ledger: the number
\* of alerts returned equals the number of conditions that hold.
C9_RulesIndependent ==
    AlertasListas =>
        /\ Devueltas(ALERTA_CAIDA) = Uno(CondicionCaida)
        /\ Devueltas(ALERTA_GASTOS) = Uno(CondicionGastos)
        /\ Devueltas(ALERTA_MARGEN) = Uno(CondicionMargen)
        /\ Devueltas(ALERTA_SIN_VENTAS) = Uno(CondicionSilencio)
        /\ Devueltas(ALERTA_CLIENTE) = Uno(CondicionCliente)
        /\ Len(AlertasDevueltas)
              = Uno(CondicionCaida) + Uno(CondicionGastos) + Uno(CondicionMargen)
                  + Uno(CondicionSilencio) + Uno(CondicionCliente)

-----------------------------------------------------------------------------
(* Anomaly Detector: src/ai_analysis.py, detect_anomalies_advanced.         *)

SIGMAS_ATIPICO == 3
SIGMAS_DIA == 2
MIN_VENTAS_DIA == 7
MIN_VENTAS_SEMANAL == 14
MIN_SEMANAS == 3
UMBRAL_CAMBIO == 50
UMBRAL_DIAS_PERIODO == 7

TIPO_ALTA == "Venta Excepcionalmente Alta"
TIPO_DIA == "Patron Temporal Anomalo"
TIPO_AUMENTO == "Cambio Abrupto de Tendencia (aumento)"
TIPO_CAIDA == "Cambio Abrupto de Tendencia (caida)"
TIPO_PERIODO == "Periodo Sin Ventas"

\* One entry of the result; valor is a fraction (float(total), a mean, 0).
Anomalia(tipo, fecha, valor, categoria) ==
    [tipo |-> tipo, fecha |-> fecha, valor |-> valor, categoria |-> categoria]

RECURSIVE Mcd(_, _)
Mcd(a, b) == IF b = 0 THEN a ELSE Mcd(b, a % b)

RECURSIVE McdSeq(_)
McdSeq(s) == IF s = <<>> THEN 0 ELSE Mcd(Abs(Head(s)), McdSeq(Tail(s)))

Mcm(a, b) == (a * b) \div Mcd(a, b)

RECURSIVE McmSeq(_)
McmSeq(s) == IF s = <<>> THEN 1 ELSE Mcm(Head(s), McmSeq(Tail(s)))

RECURSIVE SumSq(_)
SumSq(s) == IF s = <<>> THEN 0 ELSE Head(s) * Head(s) + SumSq(Tail(s))

\* The deviations xs[i] - mean(xs), all multiplied by one positive factor
\* that makes them the smallest integers: (n*xs[i] - sum) / their gcd.
Desviaciones(xs) ==
    LET n  == Len(xs)
        S  == SumSeq(xs)
        ds == [i \in DOMAIN xs |-> n * xs[i] - S]
        g  == McdSeq(ds)
    IN  [i \in DOMAIN xs |-> IF g = 0 THEN 0 ELSE ds[i] \div g]

\* x > mean + k * std on the deviations d, std being Series.std() (sample,
\* ddof = 1): NaN for a single value, and a comparison with NaN is False.
SobreUmbral(d, i, k) ==
    /\ Len(d) > 1
    /\ d[i] > 0
    /\ (Len(d) - 1) * d[i] * d[i] > k * k * SumSq(d)

\* x < mean - k * std.
BajoUmbral(d, i, k) ==
    /\ Len(d) > 1
    /\ d[i] < 0
    /\ (Len(d) - 1) * d[i] * d[i] > k * k * SumSq(d)

\* Lines 844-847: the positions of the rows beyond 3 std on either side.
ventas_anomalas(ventas) ==
    LET d == Desviaciones(Col(ventas, "total"))
    IN  SelectSeq([i \in DOMAIN ventas |-> i],
                  LAMBDA i : \/ SobreUmbral(d, i, SIGMAS_ATIPICO)
                             \/ BajoUmbral(d, i, SIGMAS_ATIPICO))

AnomaliaAlta(venta) ==
    Anomalia(TIPO_ALTA, <<venta.fecha>>, Frac(venta.total, 1), "Valor Atipico")

\* Mutant of AnomaliasAtipicas: every selected row is reported.
AnomaliasAtipicas_ConBajas(ventas) ==
    LET filas == ventas_anomalas(ventas)
    IN  [j \in DOMAIN filas |-> AnomaliaAlta(ventas[filas[j]])]

\* Lines 841-857: of the selected rows, those above the mean are reported.
AnomaliasAtipicas(ventas) ==
    LET d     == Desviaciones(Col(ventas, "total"))
        filas == SelectSeq(ventas_anomalas(ventas),
                           LAMBDA i : SobreUmbral(d, i, SIGMAS_ATIPICO))
    IN  [j \in DOMAIN filas |-> AnomaliaAlta(ventas[filas[j]])]

\* Series.dt.day_name() of weekday 0..6.
NOMBRE_DIA ==
    <<"Monday", "Tuesday", "Wednesday", "Thursday", "Friday", "Saturday", "Sunday">>

\* groupby('dia_semana') sorts its keys: the weekdays by name.
DIAS_ORDENADOS == <<4, 0, 5, 6, 3, 1, 2>>

TotalesDelDia(ventas, wd) ==
    Col(SelectSeq(ventas, LAMBDA v : weekday(v.fecha) = wd), "total")

\* Line 863: one mean per weekday that has sales, as sum over count.
ventas_por_dia(ventas) ==
    LET dias == SelectSeq(DIAS_ORDENADOS,
                          LAMBDA wd : TotalesDelDia(ventas, wd) # <<>>)
    IN  [j \in DOMAIN dias |->
            [dia      |-> dias[j],
             promedio |-> Frac(SumSeq(TotalesDelDia(ventas, dias[j])),
                               Len(TotalesDelDia(ventas, dias[j])))]]

\* The weekday means brought to their common denominator.
PromediosEnteros(vpd) ==
    LET m == McmSeq([j \in DOMAIN vpd |-> vpd[j].promedio.den])
    IN  [j \in DOMAIN vpd |-> vpd[j].promedio.num * (m \div vpd[j].promedio.den)]

\* Lines 861-877: weekdays whose mean is below the mean of the weekday
\* means by more than 2 (sample) std.
AnomaliasDiaSemana(ventas) ==
    IF Len(ventas) < MIN_VENTAS_DIA THEN <<>>
    ELSE LET vpd   == ventas_por_dia(ventas)
             d     == Desviaciones(PromediosEnteros(vpd))
             bajos == SelectSeq([j \in DOMAIN vpd |-> j],
                                LAMBDA j : BajoUmbral(d, j, SIGMAS_DIA))
         IN  [j \in DOMAIN bajos |->
                 Anomalia(TIPO_DIA, <<"Dia", NOMBRE_DIA[vpd[bajos[j]].dia + 1]>>,
                          vpd[bajos[j]].promedio, "Patron Temporal")]

\* dt.to_period('W'): the Monday-to-Sunday week of a date.
semana(d) == (d - 1) \div 7

TotalDeSemana(ventas, w) ==
    SumSeq(Col(SelectSeq(ventas, LAMBDA v : semana(v.fecha) = w), "total"))

\* Line 883: one total per week that has sales, in week order.
ventas_semanales(ventas) ==
    LET semanas == SortedSet({semana(ventas[i].fecha) : i \in DOMAIN ventas})
    IN  [j \in DOMAIN semanas |->
            [semana |-> semanas[j], total |-> TotalDeSemana(ventas, semanas[j])]]

\* Mutant of CambioAbrupto: a change of exactly 50% is flagged too.
CambioAbrupto_DesdeCincuenta(anterior, actual) ==
    /\ anterior > 0
    /\ Abs(actual - anterior) * 100 >= UMBRAL_CAMBIO * anterior

\* Line 888: cambio = (actual - anterior) / anterior * 100 if anterior > 0
\* else 0, and abs(cambio) > 50.
CambioAbrupto(anterior, actual) ==
    /\ anterior > 0
    /\ Abs(actual - anterior) * 100 > UMBRAL_CAMBIO * anterior

\* Mutant of AnomaliasSemanales: the pass runs on fewer than 14 records.
AnomaliasSemanales_SinMinimo(ventas) ==
    LET vs == ventas_semanales(ventas)
        cambios == SelectSeq([j \in 1..(Len(vs) - 1) |-> j + 1],
                       LAMBDA j : CambioAbrupto(vs[j - 1].total, vs[j].total))
    IN  IF Len(vs) < MIN_SEMANAS THEN <<>>
        ELSE [j \in DOMAIN cambios |->
                Anomalia(IF vs[cambios[j]].total > vs[cambios[j] - 1].total
                         THEN TIPO_AUMENTO ELSE TIPO_CAIDA,
                         <<7 * vs[cambios[j]].semana + 1,
                           7 * vs[cambios[j]].semana + 7>>,
                         Frac(vs[cambios[j]].total, 1), "Tendencia")]

\* Lines 879-899.
AnomaliasSemanales(ventas) ==
    IF Len(ventas) < MIN_VENTAS_SEMANAL THEN <<>>
    ELSE LET vs == ventas_semanales(ventas)
             cambios == SelectSeq([j \in 1..(Len(vs) - 1) |-> j + 1],
                            LAMBDA j : CambioAbrupto(vs[j - 1].total, vs[j].total))
         IN  IF Len(vs) < MIN_SEMANAS THEN <<>>
             ELSE [j \in DOMAIN cambios |->
                     Anomalia(IF vs[cambios[j]].total > vs[cambios[j] - 1].total
                              THEN TIPO_AUMENTO ELSE TIPO_CAIDA,
                              <<7 * vs[cambios[j]].semana + 1,
                                7 * vs[cambios[j]].semana + 7>>,
                              Frac(vs[cambios[j]].total, 1), "Tendencia")]

\* sort_values('fecha'): the dates of the records in ascending order.
RECURSIVE FechasOrdenadas(_)
FechasOrdenadas(fs) ==
    IF fs = <<>> THEN <<>>
    ELSE LET m == MinSeq(fs)
             k == CHOOSE i \in DOMAIN fs : fs[i] = m
         IN  <<m>> \o FechasOrdenadas(SubSeq(fs, 1, k - 1) \o SubSeq(fs, k + 1, Len(fs)))

\* Mutant of AnomaliasPeriodos: the records are compared in ledger order.
AnomaliasPeriodos_SinOrdenar(ventas) ==
    LET fs     == Col(ventas, "fecha")
        saltos == SelectSeq([j \in 1..(Len(fs) - 1) |-> j + 1],
                            LAMBDA j : fs[j] - fs[j - 1] > UMBRAL_DIAS_PERIODO)
    IN  [j \in DOMAIN saltos |->
            Anomalia(TIPO_PERIODO, <<fs[saltos[j] - 1], fs[saltos[j]]>>,
                     Frac(0, 1), "Temporal")]

\* Lines 901-912: one entry per consecutive pair more than 7 days apart.
AnomaliasPeriodos(ventas) ==
    LET fs     == FechasOrdenadas(Col(ventas, "fecha"))
        saltos == SelectSeq([j \in 1..(Len(fs) - 1) |-> j + 1],
                            LAMBDA j : fs[j] - fs[j - 1] > UMBRAL_DIAS_PERIODO)
    IN  [j \in DOMAIN saltos |->
            Anomalia(TIPO_PERIODO, <<fs[saltos[j] - 1], fs[saltos[j]]>>,
                     Frac(0, 1), "Temporal")]

\* df[columna] = ...: the caller's frame gains (or replaces) a column.
ConColumna(ventas, columna, valores) ==
    [i \in DOMAIN ventas |->
        [f \in DOMAIN ventas[i] \cup {columna} |->
            IF f = columna THEN valores[i] ELSE ventas[i][f]]]

-----------------------------------------------------------------------------
(* SpecAnomaly: detect_anomalies_advanced, one step per pass.               *)

MaxExtrasAnomalia == 2

\* Sizes of the block of equal sales: none, one, and around the least size
\* (11 records) at which one record can lie more than 3 sample std above
\* the mean.
TamanosBase == {0, 1, 9, 10, 20}

\* Sales added after the block: <<total, days after the last sale of the
\* block>>; a large sale, a sale of three times the usual one, a large
\* credit note; the next day, 7 days, 8 days and 15 days later.
VentasExtra == {10000, 300, -10000} \X {1, 7, 8, 15}

\* nBase sales of 100 dated every paso days from day 1 (a Monday),
\* then the extra sales in the order given.
LedgerAnomalias(nBase, paso, extras) ==
    LET ultima == IF nBase = 0 THEN 1 ELSE 1 + (nBase - 1) * paso
    IN  [i \in 1..nBase |->
            Venta(1 + (i - 1) * paso, "A", "c1", "RE", NULL, 100)]
        \o [j \in DOMAIN extras |->
            Venta(ultima + extras[j][2], "A", "c2", "RE", NULL, extras[j][1])]

LedgersAnomalias ==
    {LedgerAnomalias(n, paso, e) :
        n \in TamanosBase, paso \in {0, 1},
        e \in SeqsUpTo(VentasExtra, MaxExtrasAnomalia)}

InitAnomaly ==
    /\ SinKpi /\ SinResumen
    /\ df_ventas \in LedgersAnomalias
    /\ df_gastos = <<>>
    /\ pc = "an_inicio"
    /\ anomalias = <<>>
    /\ db = <<>> /\ gastos_automaticos = <<>>
    /\ gastos_totales_ctx = SinResultado /\ pendientes = <<>>
    /\ caps = <<>> /\ predicciones = <<>> /\ metodos_usados = <<>>
    /\ intentados = <<>> /\ prediccion = <<>>
    /\ entorno = <<>> /\ alertas_criticas = <<>>

\* ai_analysis.py 833-838
AnInicio ==
    /\ pc = "an_inicio"
    /\ UNCHANGED <<kpiVars, summaryVars>>
    /\ pc' = IF Len(df_ventas) = 0 THEN "an_fin" ELSE "an_atipicos"
    /\ UNCHANGED <<db, df_ventas, df_gastos, pendientes>>
    /\ UNCHANGED <<mergeVars, forecastVars, alertVars, anomalyVars>>

\* ai_analysis.py 840-857
AnAtipicos ==
    /\ pc = "an_atipicos"
    /\ UNCHANGED <<kpiVars, summaryVars>>
    /\ anomalias' = anomalias \o AnomaliasAtipicas(df_ventas)
    /\ pc' = "an_dias"
    /\ UNCHANGED <<db, df_ventas, df_gastos, pendientes>>
    /\ UNCHANGED <<mergeVars, forecastVars, alertVars>>

\* ai_analysis.py 859-877
AnDias ==
    /\ pc = "an_dias"
    /\ UNCHANGED <<kpiVars, summaryVars>>
    /\ anomalias' = anomalias \o AnomaliasDiaSemana(df_ventas)
    /\ df_ventas' =
          IF Len(df_ventas) >= MIN_VENTAS_DIA
          THEN ConColumna(df_ventas, "dia_semana",
                  [i \in DOMAIN df_ventas |->
                      NOMBRE_DIA[weekday(df_ventas[i].fecha) + 1]])
          ELSE df_ventas
    /\ pc' = "an_semanas"
    /\ UNCHANGED <<db, df_gastos, pendientes>>
    /\ UNCHANGED <<mergeVars, forecastVars, alertVars>>

\* ai_analysis.py 879-899
AnSemanas ==
    /\ pc = "an_semanas"
    /\ UNCHANGED <<kpiVars, summaryVars>>
    /\ anomalias' = anomalias \o AnomaliasSemanales(df_ventas)
    /\ df_ventas' =
          IF Len(df_ventas) >= MIN_VENTAS_SEMANAL
          THEN ConColumna(df_ventas, "semana",
                  [i \in DOMAIN df_ventas |-> semana(df_ventas[i].fecha)])
          ELSE df_ventas
    /\ pc' = "an_periodos"
    /\ UNCHANGED <<db, df_gastos, pendientes>>
    /\ UNCHANGED <<mergeVars, forecastVars, alertVars>>

\* ai_analysis.py 901-914
AnPeriodos ==
    /\ pc = "an_periodos"
    /\ UNCHANGED <<kpiVars, summaryVars>>
    /\ anomalias' = anomalias \o AnomaliasPeriodos(df_ventas)
    /\ pc' = "an_fin"
    /\ UNCHANGED <<db, df_ventas, df_gastos, pendientes>>
    /\ UNCHANGED <<mergeVars, forecastVars, alertVars>>

NextAnomaly ==
    \/ AnInicio
    \/ AnAtipicos
    \/ AnDias
    \/ AnSemanas
    \/ AnPeriodos

SpecAnomaly == InitAnomaly /\ [][NextAnomaly]_vars

-----------------------------------------------------------------------------
(* Claims about the Anomaly Detector.                                       *)

\* The outlier pass has run (or the detector returned before it).
AtipicosListos == pc \in {"an_dias", "an_semanas", "an_periodos", "an_fin"}

\* The totals of the ledger in hundreds (every amount is a whole hundred).
EnCientos == [i \in DOMAIN df_ventas |-> df_ventas[i].total \div 100]

\* Sale i lies above mean + 3 * stdev of all totals: with n values of sum U
\* and sum of squares Q the sample variance is (n*Q - U^2) / (n*(n-1)).
ExcedeTresSigmas(i) ==
    LET n == Len(EnCientos)
        U == SumSeq(EnCientos)
        Q == SumSeq([j \in DOMAIN EnCientos |-> EnCientos[j] * EnCientos[j]])
    IN  /\ n * EnCientos[i] > U
        /\ (n - 1) * (n * EnCientos[i] - U) * (n * EnCientos[i] - U)
              > 9 * n * (n * Q - U * U)

ReportadasAtipicas == SelectSeq(anomalias, LAMBDA a : a.categoria = "Valor Atipico")

VentasSobreTresSigmas ==
    SelectSeq([i \in DOMAIN df_ventas |-> i], LAMBDA i : ExcedeTresSigmas(i))

VeinteDeCienYUnaDeDiezMil ==
    /\ Len(df_ventas) = 21
    /\ \A i \in 1..20 : df_ventas[i].total = 100
    /\ df_ventas[21].total = 10000

\* C10: the outlier pass reports one 'exceptionally high sale' for exactly
\* the sales whose total is above mean + 3 * stdev of all totals, in ledger
\* order, and nothing for any other sale (none for a sale below
\* mean - 3 * stdev); 20 sales of 100 and one of 10000 give exactly one
\* report, of the 10000 sale.
C10_OutlierPass ==
    AtipicosListos =>
        /\ Len(ReportadasAtipicas) = Len(VentasSobreTresSigmas)
        /\ \A j \in DOMAIN ReportadasAtipicas :
              /\ ReportadasAtipicas[j].tipo = TIPO_ALTA
              /\ ReportadasAtipicas[j].valor
                    = Frac(df_ventas[VentasSobreTresSigmas[j]].total, 1)
              /\ ReportadasAtipicas[j].fecha
                    = <<df_ventas[VentasSobreTresSigmas[j]].fecha>>
        /\ VeinteDeCienYUnaDeDiezMil =>
              /\ Len(ReportadasAtipicas) = 1
              /\ ReportadasAtipicas[1].valor = Frac(10000, 1)

C10_Witness ==
    /\ pc = "an_fin"
    /\ VeinteDeCienYUnaDeDiezMil
    /\ Len(ReportadasAtipicas) = 1
    /\ ReportadasAtipicas[1].tipo = TIPO_ALTA
    /\ ReportadasAtipicas[1].valor = Frac(10000, 1)

-----------------------------------------------------------------------------
(* Ratio Calculator: src/calculos_financieros.py                            *)

\* Lines 23-25: the registered ledger without the automatic classifications,
\* followed by the synthetic records when there are any.
GastosDelCalculo(base) ==
    LET gastos_totales ==
            obtener_gastos_totales_con_automaticos(base.gastos, base.ventas)
    IN  IF Len(gastos_totales.gastos_automaticos) > 0
        THEN gastos_totales.gastos_registrados \o gastos_totales.gastos_automaticos
        ELSE gastos_totales.gastos_registrados

RECURSIVE SumaColumnas(_, _)
SumaColumnas(gastos, columnas) ==
    IF columnas = <<>> THEN 0
    ELSE SumSeq(Col(gastos, Head(columnas))) + SumaColumnas(gastos, Tail(columnas))

\* df_gastos[df_gastos['tipo'] == tipo][columna].sum(), over the columns of
\* the calculator.
SumaDeTipo(gastos, tipo, columnas) ==
    SumaColumnas(SelectSeq(gastos, LAMBDA g : g.tipo = tipo), columnas)

\* The revenue of a channel; the post-sale calculator takes every sale.
IngresosDeCanal(ventas, canal) ==
    IF canal = "TODOS" THEN SumSeq(Col(ventas, "total"))
    ELSE SumSeq(Col(DeTipo(ventas, canal), "total"))

\* Mutant of factor_absorcion: the guard only excludes a zero fixed cost.
factor_absorcion_NoCero(ingresos, gastos_fijos) ==
    IF gastos_fijos # 0 THEN Frac(ingresos * 100, gastos_fijos) ELSE Frac(0, 1)

\* Lines 42, 59: ingresos / gastos_fijos * 100 if gastos_fijos > 0 else 0.
factor_absorcion(ingresos, gastos_fijos) ==
    IF gastos_fijos > 0 THEN Frac(ingresos * 100, gastos_fijos) ELSE Frac(0, 1)

\* Mutant of margen: the fixed cost is subtracted instead of the variable.
margen_MenosFijos(ingresos, gastos_fijos, gastos_variables) ==
    ingresos - gastos_fijos

\* Lines 43, 60.
margen(ingresos, gastos_fijos, gastos_variables) == ingresos - gastos_variables

\* Lines 42-53, 59-70: the dict of one scope.
Indicadores(ingresos, gastos_fijos, gastos_variables) ==
    [ingresos            |-> ingresos,
     gastos_fijos        |-> gastos_fijos,
     gastos_variables    |-> gastos_variables,
     factor_absorcion    |-> factor_absorcion(ingresos, gastos_fijos),
     margen              |-> margen(ingresos, gastos_fijos, gastos_variables),
     resultado_operativo |->
         margen(ingresos, gastos_fijos, gastos_variables) - gastos_fijos]

\* The body the three calculators share: canal and columnas tell them apart.
calcular_factor_absorcion(base, canal, columnas, por_sucursal) ==
    LET gastos == GastosDelCalculo(base)
    IN  IF por_sucursal
        THEN [s \in Range(Sucursales(base.ventas)) |->
                Indicadores(
                    IngresosDeCanal(DeSucursal(base.ventas, s), canal),
                    SumaDeTipo(DeSucursal(gastos, s), "FIJO", columnas),
                    SumaDeTipo(DeSucursal(gastos, s), "VARIABLE", columnas))]
        ELSE Indicadores(
                 IngresosDeCanal(base.ventas, canal),
                 SumaDeTipo(gastos, "FIJO", columnas),
                 SumaDeTipo(gastos, "VARIABLE", columnas))

calcular_factor_absorcion_servicios(base, por_sucursal) ==
    calcular_factor_absorcion(base, "SE", <<"total_pct_se">>, por_sucursal)

calcular_factor_absorcion_repuestos(base, por_sucursal) ==
    calcular_factor_absorcion(base, "RE", <<"total_pct_re">>, por_sucursal)

calcular_factor_absorcion_postventa(base, por_sucursal) ==
    calcular_factor_absorcion(base, "TODOS", <<"total_pct_se", "total_pct_re">>,
                              por_sucursal)

\* Lines 235-240, 246-251.
Equilibrio(ingresos, gastos) ==
    [punto_equilibrio  |-> gastos,
     ingresos_actuales |-> ingresos,
     gastos_totales    |-> gastos,
     diferencia        |-> ingresos - gastos]

\* Lines 215-251.
calcular_punto_equilibrio(base, por_sucursal) ==
    LET gastos_totales ==
            obtener_gastos_totales_con_automaticos(base.gastos, base.ventas)
    IN  IF por_sucursal
        THEN [s \in Range(Sucursales(base.ventas)) |->
                Equilibrio(
                    SumSeq(Col(DeSucursal(base.ventas, s), "total")),
                    SumaColumnas(DeSucursal(gastos_totales.gastos_todos, s),
                                 <<"total_pct_se", "total_pct_re">>))]
        ELSE Equilibrio(SumSeq(Col(base.ventas, "total")),
                        gastos_totales.gastos_postventa_total)

-----------------------------------------------------------------------------
(* SpecRatios: one call of a ratio calculator over the rows of the ledger   *)
(* collaborator, for the whole business or per branch.                      *)

MaxVentasKpi == 2
MaxGastosKpi == 2

\* A counter-parts sale, a service sale with no parts sub-amount, a service
\* sale with parts, a parts credit note and a sale with no branch.
VentasKpi ==
    {Venta(1, "A", "c1", "RE", Val(1000), 1000),
     Venta(1, "A", "c1", "SE", NULL, 1000),
     Venta(1, "B", "c1", "SE", Val(300), 1000),
     Venta(1, "B", "c1", "RE", Val(-1000), -1000),
     Venta(1, NA, "c1", "SE", NULL, 500)}

GastoKpi(s, tipo, se, re) ==
    [id |-> "MANUAL", sucursal |-> s, area |-> "POSTVENTA",
     pct_servicios |-> 50, pct_repuestos |-> 50,
     tipo |-> tipo, clasificacion |-> "ALQUILER",
     proveedor |-> "OTRO", total_usd |-> se + re, total_pct |-> se + re,
     total_pct_se |-> se, total_pct_re |-> re, automatico |-> FALSE]

\* A fixed expense, a variable expense, a fixed credit (negative amount) and
\* a row that carries one of the automatic classifications.
GastosKpi ==
    {GastoKpi("A", "FIJO", 100, 300),
     GastoKpi("A", "VARIABLE", 200, 50),
     GastoKpi("B", "FIJO", -400, -100),
     GastoManual("A", CLASIF_MOSTRADOR)}

InitRatios ==
    /\ SinResumen
    /\ db \in [ventas : SeqsUpTo(VentasKpi, MaxVentasKpi),
                gastos : SeqsUpTo(GastosKpi, MaxGastosKpi)]
    /\ pc = "kpi_inicio"
    /\ resultado = <<>>
    /\ df_ventas = <<>>
    /\ df_gastos = <<>>
    /\ gastos_automaticos = <<>>
    /\ gastos_totales_ctx = SinResultado
    /\ pendientes = <<>>
    /\ caps = <<>> /\ predicciones = <<>> /\ metodos_usados = <<>>
    /\ intentados = <<>> /\ prediccion = <<>>
    /\ entorno = <<>> /\ alertas_criticas = <<>>
    /\ anomalias = <<>>

Devuelve(funcion, por_sucursal, valor) ==
    /\ resultado' = [funcion |-> funcion, por_sucursal |-> por_sucursal,
                     valor |-> valor]
    /\ pc' = "kpi_fin"
    /\ UNCHANGED <<db, df_ventas, df_gastos, pendientes>>
    /\ UNCHANGED <<mergeVars, forecastVars, alertVars, anomalyVars, summaryVars>>

\* calculos_financieros.py 8-70
KpiServicios ==
    /\ pc = "kpi_inicio"
    /\ \E por_sucursal \in BOOLEAN :
         Devuelve("servicios", por_sucursal,
                  calcular_factor_absorcion_servicios(db, por_sucursal))

\* calculos_financieros.py 72-134
KpiRepuestos ==
    /\ pc = "kpi_inicio"
    /\ \E por_sucursal \in BOOLEAN :
         Devuelve("repuestos", por_sucursal,
                  calcular_factor_absorcion_repuestos(db, por_sucursal))

\* calculos_financieros.py 136-202
KpiPostventa ==
    /\ pc = "kpi_inicio"
    /\ \E por_sucursal \in BOOLEAN :
         Devuelve("postventa", por_sucursal,
                  calcular_factor_absorcion_postventa(db, por_sucursal))

\* calculos_financieros.py 204-251
KpiEquilibrio ==
    /\ pc = "kpi_inicio"
    /\ \E por_sucursal \in BOOLEAN :
         Devuelve("equilibrio", por_sucursal,
                  calcular_punto_equilibrio(db, por_sucursal))

NextRatios == KpiServicios \/ KpiRepuestos \/ KpiPostventa \/ KpiEquilibrio

SpecRatios == InitRatios /\ [][NextRatios]_vars

\* The scopes of the returned dict and the dict of one scope.
Alcances == IF resultado.por_sucursal THEN DOMAIN resultado.valor ELSE {"GLOBAL"}
DelAlcance(a) == IF resultado.por_sucursal THEN resultado.valor[a] ELSE resultado.valor

FactorDevuelto ==
    /\ pc = "kpi_fin"
    /\ resultado.funcion \in {"servicios", "repuestos", "postventa"}

\* C11: in every scope of the dict a factor calculator returns, the margin
\* is the revenue minus the variable cost and the operating result is the
\* margin minus the fixed cost.
C11_RatioIdentities ==
    FactorDevuelto =>
        \A a \in Alcances :
            /\ DelAlcance(a).margen =
                   DelAlcance(a).ingresos - DelAlcance(a).gastos_variables
            /\ DelAlcance(a).resultado_operativo =
                   DelAlcance(a).margen - DelAlcance(a).gastos_fijos

\* A per-branch post-sale result where a branch has revenue, a fixed cost
\* and a different variable cost.
C11_Witness ==
    /\ FactorDevuelto
    /\ resultado.funcion = "postventa"
    /\ resultado.por_sucursal
    /\ \E a \in Alcances :
         /\ DelAlcance(a).ingresos > 0
         /\ DelAlcance(a).gastos_fijos > 0
         /\ DelAlcance(a).gastos_variables > 0
         /\ DelAlcance(a).gastos_variables # DelAlcance(a).gastos_fijos

\* C12: the absorption factor is exactly 0 in every scope whose fixed cost is
\* zero or negative, empty ledgers included, and is never a division by
\* zero; in every other scope it is revenue / fixed cost * 100.
C12_ZeroGuard ==
    FactorDevuelto =>
        \A a \in Alcances :
            /\ DelAlcance(a).factor_absorcion.den # 0
            /\ DelAlcance(a).gastos_fijos <= 0 =>
                   DelAlcance(a).factor_absorcion = Frac(0, 1)
            /\ DelAlcance(a).gastos_fijos > 0 =>
                   FracEq(DelAlcance(a).factor_absorcion,
                          Frac(DelAlcance(a).ingresos * 100,
                               DelAlcance(a).gastos_fijos))

\* A per-branch result with revenue in a branch whose fixed cost is negative
\* and in a branch whose fixed cost is positive.
C12_Witness ==
    /\ FactorDevuelto
    /\ resultado.por_sucursal
    /\ \E a, b \in Alcances :
         /\ DelAlcance(a).gastos_fijos < 0 /\ DelAlcance(a).ingresos > 0
         /\ DelAlcance(b).gastos_fijos > 0 /\ DelAlcance(b).ingresos > 0

\* The fixed and variable cost of the scope the break-even dict is about.
CostosDelAlcance(a) ==
    IF resultado.por_sucursal
    THEN calcular_factor_absorcion_postventa(db, TRUE)[a]
    ELSE calcular_factor_absorcion_postventa(db, FALSE)

\* C13: the break-even point is the fixed cost divided by the
\* contribution-margin ratio (net revenue - variable cost) / net revenue,
\* and 0 when that ratio is zero or negative.
C13_BreakEven ==
    (pc = "kpi_fin" /\ resultado.funcion = "equilibrio") =>
        \A a \in Alcances :
            LET netos     == DelAlcance(a).ingresos_actuales
                variables == CostosDelAlcance(a).gastos_variables
                fijos     == CostosDelAlcance(a).gastos_fijos
            IN  IF netos = 0 \/ (netos - variables) * netos <= 0
                THEN DelAlcance(a).punto_equilibrio = 0
                ELSE DelAlcance(a).punto_equilibrio * (netos - variables)
                         = fijos * netos

-----------------------------------------------------------------------------
(* The two entries of the allocator, stated on the runs of SpecMerge.       *)

\* The sales of channel t of branch s the allocator reads.
VentasDelCanal(s, t) ==
    IF Len(db.ventas) = 0 THEN <<>>
    ELSE DeTipo(DeSucursal(DropNaT(db.ventas), s), t)

\* No sale of the rows carries a parts sub-amount.
SinSubmonto(ventas) == \A i \in DOMAIN ventas : ventas[i].repuestos = NULL

\* The synthetic records of classification c the allocator built for s.
Sinteticos(c, s) == DeClasificacion(gastos_totales_ctx.gastos_automaticos, c, s)

\* C19: the counter-parts entry of a branch costs 0.65 times the sum of the
\* parts sub-amounts of its PARTS-channel sales; the sales' total takes the
\* place of the parts sub-amount only when no such sale carries one, so
\* sub-amounts that are populated and sum to zero yield no cost.
C19_CounterPartsEntry ==
    pc = "merge_done" =>
        \A s \in SucursalesModelo :
            LET ventas_re == VentasDelCanal(s, "RE")
                base == IF SinSubmonto(ventas_re)
                        THEN SumSeq(Col(ventas_re, "total"))
                        ELSE SumNullable(Col(ventas_re, "repuestos"))
                e == Sinteticos(CLASIF_MOSTRADOR, s)
            IN  /\ \A i \in DOMAIN e : e[i].total_usd = Pct(base, 65)
                /\ Pct(base, 65) > 0 => Len(e) = 1

\* C20: the service-embedded entry of a branch costs 0.65 times the sum of
\* the parts sub-amounts of its SERVICE sales, the base being 70% of the
\* SERVICE revenue only when no SERVICE sale of the branch carries a parts
\* sub-amount; the entry is tagged service share 1 and parts share 0 (shares
\* are kept in hundredths).
C20_ServiceEmbeddedEntry ==
    pc = "merge_done" =>
        \A s \in SucursalesModelo :
            LET ventas_se == VentasDelCanal(s, "SE")
                base == IF SinSubmonto(ventas_se)
                        THEN Pct(SumSeq(Col(ventas_se, "total")), 70)
                        ELSE SumNullable(Col(ventas_se, "repuestos"))
                e == Sinteticos(CLASIF_SERVICIOS, s)
            IN  /\ \A i \in DOMAIN e :
                     /\ e[i].total_usd = Pct(base, 65)
                     /\ e[i].pct_servicios = 100
                     /\ e[i].pct_repuestos = 0
                /\ Pct(base, 65) > 0 => Len(e) = 1

-----------------------------------------------------------------------------
(* Summary: get_ai_summary, src/ai_analysis.py 320-637, with                *)
(* generate_recommendations (916-950) and get_gemini_insights (1021-1308).  *)

\* Dates are day numbers; a month is a block of 30 days.
\* fecha.dt.to_period('M') and fecha.dt.month
PeriodoMes(d) == (d - 1) \div 30
MesDelAnio(d) == (PeriodoMes(d) % 12) + 1

\* A finding: the fixed text is named by 'clave', the number formatted into
\* it is 'valor'.
Hallazgo(clave, valor) == [clave |-> clave, valor |-> valor]

\* round(num / den * escala) for a positive den, as the format specs
\* ':.1f' and ':.1%' print it.
Redondeo(num, den, escala) == (2 * num * escala + den) \div (2 * den)

TotalDelPeriodo(ventas, p) ==
    SumSeq(Col(SelectSeq(ventas, LAMBDA v : PeriodoMes(v.fecha) = p), "total"))

\* Lines 351-357: the last two months of the grouped totals.
TendenciaMensual(ventas) ==
    LET periodos == SortedSet({PeriodoMes(ventas[i].fecha) : i \in DOMAIN ventas})
        n == Len(periodos)
    IN  IF n <= 1 THEN <<>>
        ELSE LET ultimo == TotalDelPeriodo(ventas, periodos[n])
                 previo == TotalDelPeriodo(ventas, periodos[n - 1])
             IN  IF ultimo > previo THEN <<Hallazgo("tendencia_creciente", NULL)>>
                 ELSE IF ultimo < previo THEN <<Hallazgo("tendencia_decreciente", NULL)>>
                 ELSE <<>>

\* Lines 359-373.
UMBRAL_MIX == 60
TendenciaMix(ventas) ==
    LET servicios == SumSeq(Col(DeTipo(ventas, "SE"), "total"))
        repuestos == SumSeq(Col(DeTipo(ventas, "RE"), "total"))
        total_mix == servicios + repuestos
    IN  IF total_mix > 0
        THEN <<Hallazgo("mix", <<Redondeo(servicios, total_mix, 1000),
                                 Redondeo(repuestos, total_mix, 1000)>>)>>
             \o (IF servicios * 100 >= UMBRAL_MIX * total_mix
                 THEN <<Hallazgo("mix_servicios", NULL)>>
                 ELSE IF repuestos * 100 >= UMBRAL_MIX * total_mix
                 THEN <<Hallazgo("mix_repuestos", NULL)>>
                 ELSE <<>>)
        ELSE <<>>

\* Lines 376-391: margin after post-sale expenses; both ledgers non-empty.
MARGEN_AJUSTADO == 15
HallazgosDeMargen(ventas, gastos, gastos_postventa_total) ==
    IF Len(ventas) > 0 /\ Len(gastos) > 0
    THEN LET total_ingresos == TotalIngresos(ventas)
             m == total_ingresos - gastos_postventa_total
             perdida  == total_ingresos <= 0 \/ m <= 0
             ajustado == ~perdida /\ m * 100 < MARGEN_AJUSTADO * total_ingresos
         IN  [tendencias |->
                 IF ~perdida /\ ~ajustado
                 THEN <<Hallazgo("margen_saludable",
                                 Val(Redondeo(m, total_ingresos, 1000)))>>
                 ELSE <<>>,
              alertas |->
                 (IF perdida THEN <<Hallazgo("perdida_operativa", NULL)>>
                  ELSE IF ajustado
                  THEN <<Hallazgo("margen_ajustado",
                                  Val(Redondeo(m, total_ingresos, 1000)))>>
                  ELSE <<>>)
                 \o (IF gastos_postventa_total > total_ingresos
                     THEN <<Hallazgo("gastos_superan", NULL)>> ELSE <<>>)]
    ELSE [tendencias |-> <<>>, alertas |-> <<>>]

DIAS_SEGUIMIENTO == 7

\* Mutant of RecomendacionDeActividad: the block adds no recommendation.
RecomendacionDeActividad_Ninguna(ventas, referencia_corte) == <<>>

\* Lines 394-403.
RecomendacionDeActividad(ventas, referencia_corte) ==
    IF Len(ventas) > 0
    THEN LET dias_sin_venta == referencia_corte - FechaMax(ventas)
         IN  IF dias_sin_venta > DIAS_SEGUIMIENTO
             THEN <<Hallazgo("sin_ventas", Val(dias_sin_venta))>>
             ELSE <<Hallazgo("ticket_promedio",
                             Val(Redondeo(TotalIngresos(ventas), Len(ventas), 100)))>>
    ELSE <<>>

\* Lines 417-441 with no productividad_context: compute_working_hours is not
\* defined in the module, the NameError is caught (line 422) and the hours
\* available are 0; the sales rows carry no labour amounts, so the hours
\* sold are 0 too.
ProductividadLocal ==
    [horas_vendidas |-> 0, horas_disponibles |-> 0, productividad_pct |-> 0]

\* Lines 406-441: the context when one is passed, else the figures computed
\* from a non-empty sales ledger, else None.  productividad_pct is kept in
\* hundredths.
productividad_data(ventas, productividad_context) ==
    IF productividad_context # NULL THEN productividad_context
    ELSE IF Len(ventas) > 0 THEN Val(ProductividadLocal)
    ELSE NULL

\* Lines 446-447: ocupacion_pct as a fraction.
Ocupacion(d) ==
    IF d.horas_disponibles > 0
    THEN Frac(100 * d.horas_vendidas, d.horas_disponibles)
    ELSE Frac(d.productividad_pct, 1)

OCUPACION_BAJA == 50
OCUPACION_OBJETIVO == 65

\* Lines 443-459: the annotations of a productivity record.
AnotacionesDe(d) ==
    LET o == Ocupacion(d)
        decimas == Redondeo(o.num, o.den, 10)
    IN  [tendencias |->
            <<Hallazgo("productividad",
                       Val(<<d.horas_vendidas, d.horas_disponibles, decimas>>))>>,
         alertas |->
            IF o.num < OCUPACION_BAJA * o.den
            THEN <<Hallazgo("baja_ocupacion", Val(decimas))>> ELSE <<>>,
         recomendaciones |->
            IF o.num < OCUPACION_OBJETIVO * o.den
            THEN <<Hallazgo("planificacion", NULL)>> ELSE <<>>]

\* Mutant of HallazgosDeProductividad: the block also runs on no sales.
HallazgosDeProductividad_Siempre(ventas, productividad_context) ==
    AnotacionesDe(IF productividad_context # NULL THEN productividad_context[1]
                  ELSE ProductividadLocal)

\* Lines 405-459.
HallazgosDeProductividad(ventas, productividad_context) ==
    LET d == productividad_data(ventas, productividad_context)
    IN  IF d # NULL THEN AnotacionesDe(d[1])
        ELSE [tendencias |-> <<>>, alertas |-> <<>>, recomendaciones |-> <<>>]

\* Lines 334-459: the three lists before the forecast is asked for.
InsightsLocales(ventas, gastos, ctx, referencia_corte, productividad_context) ==
    LET hm == HallazgosDeMargen(ventas, gastos, ctx.gastos_postventa_total)
        hp == HallazgosDeProductividad(ventas, productividad_context)
    IN  [tendencias |->
            (IF Len(ventas) > 0
             THEN TendenciaMensual(ventas) \o TendenciaMix(ventas) ELSE <<>>)
            \o hm.tendencias \o hp.tendencias,
         alertas |-> hm.alertas \o hp.alertas,
         recomendaciones |->
            RecomendacionDeActividad(ventas, referencia_corte)
            \o hp.recomendaciones]

\* generate_recommendations, lines 922-927: share of the five largest
\* clients (rows with no client fall out of the groupby).
TOP_CLIENTES == 5
UMBRAL_TOP == 50
TotalDeClientes(ventas, S) ==
    SumSeq(Col(SelectSeq(ventas, LAMBDA v : v.cliente \in S), "total"))

TotalTopClientes(ventas) ==
    LET cs == ClientesNombrados(ventas)
        k  == IF Cardinality(cs) < TOP_CLIENTES THEN Cardinality(cs)
              ELSE TOP_CLIENTES
        candidatos == {S \in SUBSET cs : Cardinality(S) = k}
        mejor == CHOOSE S \in candidatos :
                    \A T \in candidatos :
                        TotalDeClientes(ventas, T) <= TotalDeClientes(ventas, S)
    IN  TotalDeClientes(ventas, mejor)

RecomendacionClientes(ventas) ==
    LET total_ventas == TotalIngresos(ventas)
    IN  IF total_ventas > 0
           /\ TotalTopClientes(ventas) * 100 > UMBRAL_TOP * total_ventas
        THEN <<Hallazgo("diversificar",
                        Val(Redondeo(TotalTopClientes(ventas), total_ventas, 1000)))>>
        ELSE <<>>

\* Lines 930-937: largest against smallest branch total.
UMBRAL_DESBALANCE == 3
RecomendacionSucursales(ventas) ==
    LET ss == Range(Sucursales(ventas))
        totales == {SumSeq(Col(DeSucursal(ventas, s), "total")) : s \in ss}
        maximo == CHOOSE t \in totales : \A u \in totales : u <= t
        minimo == CHOOSE t \in totales : \A u \in totales : t <= u
    IN  IF Cardinality(ss) > 1 /\ minimo > 0
           /\ maximo > UMBRAL_DESBALANCE * minimo
        THEN <<Hallazgo("desbalance", NULL)>>
        ELSE <<>>

\* Lines 940-948: std / mean of the totals by month number above 0.3, the
\* std being the sample one: 100 * sum (k*x - S)^2 > 9 * (k - 1) * S^2.
MIN_VENTAS_ESTACIONAL == 30
TotalDelMes(ventas, mes) ==
    SumSeq(Col(SelectSeq(ventas, LAMBDA v : MesDelAnio(v.fecha) = mes), "total"))

RecomendacionEstacional(ventas) ==
    LET meses == SortedSet({MesDelAnio(ventas[i].fecha) : i \in DOMAIN ventas})
        k == Len(meses)
        totales == [i \in DOMAIN meses |-> TotalDelMes(ventas, meses[i])]
        S == SumSeq(totales)
        desvios == [i \in DOMAIN meses |-> k * totales[i] - S]
    IN  IF Len(ventas) >= MIN_VENTAS_ESTACIONAL /\ k > 1 /\ S > 0
           /\ 100 * SumSq(desvios) > 9 * (k - 1) * S * S
        THEN <<Hallazgo("estacionalidad", NULL)>>
        ELSE <<>>

\* Lines 916-950: the list returned.
generate_recommendations(ventas) ==
    IF Len(ventas) > 0
    THEN RecomendacionClientes(ventas) \o RecomendacionSucursales(ventas)
         \o RecomendacionEstacional(ventas)
    ELSE <<>>

\* Lines 941-942: the frame of the caller gains the column 'mes'.
VentasTrasRecomendar(ventas) ==
    IF Len(ventas) >= MIN_VENTAS_ESTACIONAL
    THEN ConColumna(ventas, "mes",
                    [i \in DOMAIN ventas |-> MesDelAnio(ventas[i].fecha)])
    ELSE ventas

\* What the enrichment connector does once it is called: the quota is
\* exhausted, no model answers, a model raises another error, the call
\* raises, the answer holds no JSON object, its JSON does not parse, or it
\* answers with findings.
FALLAS_GEMINI ==
    {"cuota", "sin_modelo", "error_modelo", "excepcion", "sin_json",
     "json_invalido"}
RESPUESTAS_GEMINI == FALLAS_GEMINI \cup {"hallazgos"}

SinHallazgos == [tendencias |-> <<>>, alertas |-> <<>>, recomendaciones |-> <<>>]

HallazgosDeGemini ==
    [tendencias |-> <<Hallazgo("ia_tendencia", NULL)>>,
     alertas |-> <<Hallazgo("ia_alerta", NULL)>>,
     recomendaciones |-> <<Hallazgo("ia_recomendacion", NULL)>>]

\* Lines 1021-1308: every failure ends in a return of empty lists (1085,
\* 1098, 1288) or in the outer except (1298), which returns them too; with a
\* non-empty expense ledger line 1116 reads a name the function never
\* defines and the NameError takes the same exit.
get_gemini_insights(ventas, gastos, flags) ==
    IF ~flags.GEMINI_AVAILABLE THEN SinHallazgos
    ELSE IF flags.respuesta \in FALLAS_GEMINI THEN SinHallazgos
    ELSE IF Len(gastos) > 0 THEN SinHallazgos
    ELSE HallazgosDeGemini

\* Lines 496-504.
EstadoInicial ==
    [activo |-> FALSE, error |-> NULL, insights_agregados |-> 0,
     tendencias_agregadas |-> 0, alertas_agregadas |-> 0,
     recomendaciones_agregadas |-> 0, debug_info |-> NULL]

\* Lines 507-565: the lists and the status after the enrichment branch.
Enriquecido(clave, flags, ventas, gastos, ins, recs) ==
    IF clave # NULL /\ flags.GEMINI_AVAILABLE
    THEN LET g == get_gemini_insights(ventas, gastos, flags)
         IN  [insights |->
                 [tendencias |-> ins.tendencias \o g.tendencias,
                  alertas |-> ins.alertas \o g.alertas,
                  recomendaciones |-> ins.recomendaciones],
              recomendaciones |-> recs \o g.recomendaciones,
              gemini_status |->
                 [activo |-> TRUE, error |-> NULL,
                  insights_agregados |-> Len(g.tendencias) + Len(g.alertas)
                                           + Len(g.recomendaciones),
                  tendencias_agregadas |-> Len(g.tendencias),
                  alertas_agregadas |-> Len(g.alertas),
                  recomendaciones_agregadas |-> Len(g.recomendaciones),
                  debug_info |-> Val(<<"proceso", Len(ventas), Len(gastos)>>)]]
    ELSE [insights |-> ins,
          recomendaciones |-> recs,
          gemini_status |->
             IF clave # NULL
             THEN [EstadoInicial EXCEPT !.error = Val("no_instalada"),
                                        !.debug_info = Val(<<"instalar">>)]
             ELSE [EstadoInicial EXCEPT !.debug_info = Val(<<"sin_api_key">>)]]

\* Lines 571-611: the rows handed to guardar_analisis_ia, in call order.
Fila(tipo, fuente, contenido, ahora) ==
    [tipo |-> tipo, fuente |-> fuente, contenido |-> contenido,
     timestamp |-> ahora]

FilasDe(tipo, fuente, items, ahora) ==
    [i \in DOMAIN items |-> Fila(tipo, fuente, items[i], ahora)]

Filas(ins, recs, anoms, pred, alertas, fuente, ahora) ==
    FilasDe("tendencia", fuente, ins.tendencias, ahora)
    \o FilasDe("alerta", fuente, ins.alertas, ahora)
    \o FilasDe("recomendacion", fuente, ins.recomendaciones \o recs, ahora)
    \o FilasDe("anomalia", fuente, anoms, ahora)
    \o (IF pred.prediccion # NULL /\ pred.prediccion[1].num # 0
        THEN <<Fila("prediccion", fuente, pred, ahora)>> ELSE <<>>)
    \o FilasDe("alerta", fuente, alertas, ahora)

\* The rows stored when the call number 'falla' raises (0: none raises).
Guardadas(filas, falla) ==
    IF falla = 0 \/ falla > Len(filas) THEN filas
    ELSE SubSeq(filas, 1, falla - 1)

\* Mutant of TrasGuardar: the error of the connector reaches the caller.
TrasGuardar_Propaga(fallo) == IF fallo THEN "sum_error" ELSE "sum_retorno"

\* Lines 612-615: except Exception, logged; the function goes on.
TrasGuardar(fallo) == "sum_retorno"

\* Lines 621-636: the dict returned (the sections built from the sales
\* alone, 630-634, are left out).
Paquete(ins, pred, anoms, recs, alertas, usando_ia, estado, ahora, productividad) ==
    [insights |-> ins, prediccion |-> pred, anomalias |-> anoms,
     recomendaciones |-> recs, alertas_criticas |-> alertas,
     usando_ia |-> usando_ia, gemini_status |-> estado,
     timestamp_analisis |-> ahora, productividad |-> productividad]

-----------------------------------------------------------------------------
(* SpecSummary: runs of get_ai_summary; the caller may call again with the  *)
(* same arguments at another time.                                          *)

MaxCorridas == 2

\* Wall-clock days of a run and the period end a caller may pass.
Relojes == {50, 51}
FechasFin == {NULL, Val(50)}

\* No sale; one recent sale; a sale in each of two months; seven sales on
\* one day; fourteen daily sales; thirty sales over two months; a sale with
\* no client; two branches with two clients and a counter sale.
LedgersResumen ==
    {<<>>,
     LedgerSerie(1, 1, 1, 45, "plano"),
     LedgerSerie(2, 1, 40, 1, "alterno"),
     LedgerSerie(1, MIN_VENTAS_DIA, 1, 45, "plano"),
     LedgerSerie(MIN_VENTAS_SEMANAL, 1, 1, 30, "plano"),
     LedgerSerie(2, 15, 40, 1, "alterno"),
     <<Venta(45, "A", NA, "SE", NULL, 1000)>>,
     <<Venta(45, "A", "c1", "RE", Val(500), 4000),
       Venta(45, "B", "c2", "SE", NULL, 1000)>>}

GastosResumen == {<<>>, <<GastoDe("ALQUILER", 1)>>, <<GastoDe("ALQUILER", 5000)>>}

\* Productivity contexts a caller may pass: occupation of 40%, 60% and 80%,
\* and no hours available with a stated occupation of 70%.
ContextosDeProductividad ==
    {[horas_vendidas |-> 40, horas_disponibles |-> 100, productividad_pct |-> 0],
     [horas_vendidas |-> 60, horas_disponibles |-> 100, productividad_pct |-> 0],
     [horas_vendidas |-> 80, horas_disponibles |-> 100, productividad_pct |-> 0],
     [horas_vendidas |-> 0, horas_disponibles |-> 0, productividad_pct |-> 70]}

\* The first call passes no productivity context.
EntradasResumen ==
    [ventas : LedgersResumen, gastos : GastosResumen,
     gemini_api_key : {NULL, Val("clave")}, fecha_fin : FechasFin,
     productividad_context : {NULL}]

\* The libraries of the forecast matter only where a model is fitted; the
\* answer of the connector only where it is called; the failing call only
\* where the persistence connector is present.
CapacidadesResumen(e) ==
    {[PROPHET_AVAILABLE |-> FALSE, STATSMODELS_AVAILABLE |-> st,
      SKLEARN_AVAILABLE |-> FALSE, GEMINI_AVAILABLE |-> ia[1],
      respuesta |-> ia[2], HISTORIAL_DISPONIBLE |-> h[1],
      falla_guardado |-> h[2]] :
        st \in (IF UsaSimple(e.ventas) THEN {FALSE} ELSE BOOLEAN),
        ia \in (IF e.gemini_api_key = NULL THEN {<<FALSE, "hallazgos">>}
                ELSE {<<FALSE, "hallazgos">>}
                     \cup {<<TRUE, r>> : r \in RESPUESTAS_GEMINI}),
        h \in {<<FALSE, 0>>, <<TRUE, 0>>, <<TRUE, 1>>, <<TRUE, 2>>}}

EntornoDe(e, ahora) ==
    [gastos_context |-> NULL, fecha_fin |-> e.fecha_fin,
     referencia_corte |-> NULL, now |-> ahora]

\* The state a call starts from.
AlLlamar(e, ahora) ==
    /\ df_ventas = e.ventas
    /\ df_gastos = e.gastos
    /\ entorno = EntornoDe(e, ahora)
    /\ gastos_totales_ctx = SinResultado
    /\ insights = <<>> /\ recomendaciones = <<>> /\ gemini_status = <<>>
    /\ predicciones = <<>> /\ metodos_usados = <<>>
    /\ intentados = <<>> /\ prediccion = <<>>
    /\ alertas_criticas = <<>> /\ anomalias = <<>>

InitSummary ==
    /\ SinKpi
    /\ entrada \in EntradasResumen
    /\ caps \in CapacidadesResumen(entrada)
    /\ db = [ventas |-> entrada.ventas, gastos |-> entrada.gastos]
    /\ \E ahora \in Relojes : AlLlamar(entrada, ahora)
    /\ pc = "sum_inicio"
    /\ gastos_automaticos = <<>> /\ pendientes = <<>>
    /\ historial = <<>> /\ bundle = <<>>

\* ai_analysis.py 334-472: context, reference date and local findings.
SumInicio ==
    /\ pc = "sum_inicio"
    /\ LET ctx == _resolve_gastos_context(df_gastos, NULL, db)
           referencia_corte == IF entrada.fecha_fin # NULL
                               THEN entrada.fecha_fin[1] ELSE entorno.now
       IN  /\ gastos_totales_ctx' = ctx
           /\ entorno' = [entorno EXCEPT !.referencia_corte = Val(referencia_corte)]
           /\ insights' = InsightsLocales(df_ventas, df_gastos, ctx, referencia_corte,
                                          entrada.productividad_context)
    /\ pc' = "fc_inicio"
    /\ UNCHANGED <<db, df_ventas, df_gastos, pendientes, gastos_automaticos>>
    /\ UNCHANGED <<forecastVars, alertas_criticas, anomalyVars, kpiVars>>
    /\ UNCHANGED <<entrada, recomendaciones, gemini_status, historial, bundle>>

\* ai_analysis.py 474-477: the forecast is kept and the anomalies asked for.
SumPrediccion ==
    /\ pc = "fc_fin"
    /\ pc' = "an_inicio"
    /\ UNCHANGED <<db, df_ventas, df_gastos, pendientes>>
    /\ UNCHANGED <<mergeVars, forecastVars, alertVars, anomalyVars>>
    /\ UNCHANGED <<kpiVars, summaryVars>>

\* ai_analysis.py 480-493: generate_recommendations, the first two moved
\* into the insights when these hold none, and the call of the alert engine.
SumRecomendaciones ==
    /\ pc = "an_fin"
    /\ LET recs == generate_recommendations(df_ventas)
           mueve == insights.recomendaciones = <<>> /\ recs # <<>>
           n == IF Len(recs) < 2 THEN Len(recs) ELSE 2
       IN  /\ insights' = IF mueve
                          THEN [insights EXCEPT !.recomendaciones = SubSeq(recs, 1, n)]
                          ELSE insights
           /\ recomendaciones' = IF mueve THEN SubSeq(recs, n + 1, Len(recs))
                                 ELSE recs
    /\ df_ventas' = VentasTrasRecomendar(df_ventas)
    /\ entorno' = [entorno EXCEPT !.gastos_context = Val(gastos_totales_ctx)]
    /\ pc' = "al_inicio"
    /\ UNCHANGED <<db, df_gastos, pendientes>>
    /\ UNCHANGED <<mergeVars, forecastVars, alertas_criticas, anomalyVars, kpiVars>>
    /\ UNCHANGED <<entrada, gemini_status, historial, bundle>>

\* ai_analysis.py 495-565
SumEnriquecer ==
    /\ pc = "al_fin"
    /\ LET r == Enriquecido(entrada.gemini_api_key, caps, df_ventas, df_gastos,
                            insights, recomendaciones)
       IN  /\ insights' = r.insights
           /\ recomendaciones' = r.recomendaciones
           /\ gemini_status' = r.gemini_status
    /\ pc' = "sum_guardar"
    /\ UNCHANGED <<db, df_ventas, df_gastos, pendientes>>
    /\ UNCHANGED <<mergeVars, forecastVars, alertVars, anomalyVars, kpiVars>>
    /\ UNCHANGED <<entrada, historial, bundle>>

\* ai_analysis.py 567-614
SumGuardar ==
    /\ pc = "sum_guardar"
    /\ LET fuente == IF entrada.gemini_api_key # NULL /\ caps.GEMINI_AVAILABLE
                        /\ gemini_status.activo
                     THEN "gemini" ELSE "local"
           filas == Filas(insights, recomendaciones, anomalias, prediccion,
                          alertas_criticas, fuente, entorno.now)
           fallo == /\ caps.falla_guardado > 0
                    /\ caps.falla_guardado <= Len(filas)
       IN  IF caps.HISTORIAL_DISPONIBLE
           THEN /\ historial' = historial \o Guardadas(filas, caps.falla_guardado)
                /\ pc' = TrasGuardar(fallo)
           ELSE /\ UNCHANGED historial
                /\ pc' = "sum_retorno"
    /\ UNCHANGED <<db, df_ventas, df_gastos, pendientes>>
    /\ UNCHANGED <<mergeVars, forecastVars, alertVars, anomalyVars, kpiVars>>
    /\ UNCHANGED <<entrada, insights, recomendaciones, gemini_status, bundle>>

\* ai_analysis.py 616-637
SumRetorno ==
    /\ pc = "sum_retorno"
    /\ bundle' = Append(bundle,
          Paquete(insights, prediccion, anomalias, recomendaciones,
                  alertas_criticas,
                  entrada.gemini_api_key # NULL /\ caps.GEMINI_AVAILABLE,
                  gemini_status, entorno.now,
                  productividad_data(df_ventas, entrada.productividad_context)))
    /\ pc' = "sum_fin"
    /\ UNCHANGED <<db, df_ventas, df_gastos, pendientes>>
    /\ UNCHANGED <<mergeVars, forecastVars, alertVars, anomalyVars, kpiVars>>
    /\ UNCHANGED <<entrada, insights, recomendaciones, gemini_status, historial>>

\* The caller calls again, enrichment disabled, with ledgers equal to the
\* ones of the first call and the same period end, at any time of the clock.
\* A call in which a library model was fitted is not repeated: the fits are
\* free outcomes of the libraries.
SumRepetir ==
    /\ pc = "sum_fin"
    /\ Len(bundle) < MaxCorridas
    /\ entrada.gemini_api_key = NULL
    /\ intentados = <<>>
    /\ \E ahora \in Relojes :
         /\ df_ventas' = entrada.ventas
         /\ df_gastos' = entrada.gastos
         /\ entorno' = EntornoDe(entrada, ahora)
    /\ gastos_totales_ctx' = SinResultado
    /\ insights' = <<>> /\ recomendaciones' = <<>> /\ gemini_status' = <<>>
    /\ predicciones' = <<>> /\ metodos_usados' = <<>>
    /\ intentados' = <<>> /\ prediccion' = <<>>
    /\ alertas_criticas' = <<>> /\ anomalias' = <<>>
    /\ pc' = "sum_inicio"
    /\ UNCHANGED <<db, pendientes, gastos_automaticos, caps, kpiVars>>
    /\ UNCHANGED <<entrada, historial, bundle>>

\* The caller calls again with the same ledgers, period end and clock, and
\* a productivity context.
SumRepetirConContexto ==
    /\ pc = "sum_fin"
    /\ Len(bundle) < MaxCorridas
    /\ entrada.gemini_api_key = NULL
    /\ intentados = <<>>
    /\ entrada.productividad_context = NULL
    /\ \E c \in ContextosDeProductividad :
         entrada' = [entrada EXCEPT !.productividad_context = Val(c)]
    /\ df_ventas' = entrada.ventas
    /\ df_gastos' = entrada.gastos
    /\ entorno' = EntornoDe(entrada, entorno.now)
    /\ gastos_totales_ctx' = SinResultado
    /\ insights' = <<>> /\ recomendaciones' = <<>> /\ gemini_status' = <<>>
    /\ predicciones' = <<>> /\ metodos_usados' = <<>>
    /\ intentados' = <<>> /\ prediccion' = <<>>
    /\ alertas_criticas' = <<>> /\ anomalias' = <<>>
    /\ pc' = "sum_inicio"
    /\ UNCHANGED <<db, pendientes, gastos_automaticos, caps, kpiVars>>
    /\ UNCHANGED <<historial, bundle>>

NextSummary ==
    \/ SumInicio
    \/ FcInicio \/ FcProphet \/ FcArima \/ FcArimaSimple \/ FcLineal \/ FcCombinar
    \/ SumPrediccion
    \/ AnInicio \/ AnAtipicos \/ AnDias \/ AnSemanas \/ AnPeriodos
    \/ SumRecomendaciones
    \/ AlInicio \/ AlCaida \/ AlGastos \/ AlMargen \/ AlSilencio \/ AlConcentracion
    \/ SumEnriquecer
    \/ SumGuardar
    \/ SumRetorno
    \/ SumRepetir
    \/ SumRepetirConContexto

SpecSummary == InitSummary /\ [][NextSummary]_vars

-----------------------------------------------------------------------------
(* Claims about get_ai_summary.                                             *)

\* The bundle the last finished call returned.
Devuelto == bundle[Len(bundle)]

\* The enrichment connector was asked for and failed: it is absent, or the
\* call met one of the failures.
FallaDeEnriquecimiento ==
    /\ entrada.gemini_api_key # NULL
    /\ \/ ~caps.GEMINI_AVAILABLE
       \/ caps.respuesta \in FALLAS_GEMINI

\* C14: whenever the enrichment fails, the enrichment step leaves the local
\* findings as they were and the status records the failure: it is not
\* marked active and its error field holds the reason.
C14_EnrichmentFailure ==
    [][(pc = "al_fin" /\ FallaDeEnriquecimiento) =>
          /\ insights' = insights
          /\ recomendaciones' = recomendaciones
          /\ ~gemini_status'.activo
          /\ gemini_status'.error # NULL]_vars

\* C15: the persistence step never ends in an error and leaves every part
\* of the bundle as it was, whether the connector is absent, stores every
\* row, or raises at any call; the call goes on to return the bundle.
C15_PersistenceIsolation ==
    [][pc = "sum_guardar" =>
          /\ pc' = "sum_retorno"
          /\ insights' = insights
          /\ prediccion' = prediccion
          /\ anomalias' = anomalias
          /\ recomendaciones' = recomendaciones
          /\ alertas_criticas' = alertas_criticas
          /\ gemini_status' = gemini_status]_vars

\* A call returned its bundle, with findings, although the second call to
\* the persistence connector raised after the first row was stored.
C15_Witness ==
    /\ pc = "sum_fin"
    /\ Len(bundle) = 1
    /\ caps.HISTORIAL_DISPONIBLE /\ caps.falla_guardado = 2
    /\ Len(historial) = 1
    /\ Len(Devuelto.insights.tendencias) + Len(Devuelto.insights.alertas) > 1
    /\ Devuelto.alertas_criticas # <<>>

LedgersVacios == entrada.ventas = <<>> /\ entrada.gastos = <<>>

BundleVacio(b) ==
    /\ b.insights.tendencias = <<>>
    /\ b.insights.alertas = <<>>
    /\ b.insights.recomendaciones = <<>>
    /\ b.prediccion = SinPrediccion
    /\ b.alertas_criticas = <<>>
    /\ b.anomalias = <<>>

\* C16 (as stated): on an empty sales ledger and an empty expense ledger the
\* call never raises and the bundle it returns has empty trends, alerts and
\* recommendations, the forecast with no projected value that asks for more
\* data, no critical alert and no anomaly.
C16_DegenerateInput ==
    LedgersVacios =>
        /\ pc \notin {"al_error", "sum_error"}
        /\ pc = "sum_fin" => BundleVacio(Devuelto)

\* C16 (amended): the same whenever no productivity context is passed and
\* the enrichment adds no finding (no API key, connector absent, or
\* connector call that yields nothing).
C16_DegenerateInputLocal ==
    LedgersVacios =>
        /\ pc \notin {"al_error", "sum_error"}
        /\ (/\ pc = "sum_fin"
            /\ entrada.productividad_context = NULL
            /\ Devuelto.gemini_status.insights_agregados = 0)
               => BundleVacio(Devuelto)

\* A call on empty ledgers with no API key returned, the persistence
\* connector present.
C16_Witness ==
    /\ LedgersVacios
    /\ pc = "sum_fin"
    /\ entrada.gemini_api_key = NULL
    /\ caps.HISTORIAL_DISPONIBLE
    /\ BundleVacio(Devuelto)

\* C17: two calls with enrichment disabled, equal ledgers and the same
\* reference date return equal critical alerts (detection timestamp
\* included), forecasts, anomalies and insights, whatever the clock of each
\* call.
C17_Determinism ==
    (/\ Len(bundle) >= 2
     /\ entrada.gemini_api_key = NULL
     /\ entrada.productividad_context = NULL
     /\ entrada.fecha_fin # NULL) =>
        \A i, j \in DOMAIN bundle :
            /\ bundle[i].alertas_criticas = bundle[j].alertas_criticas
            /\ bundle[i].anomalias = bundle[j].anomalias
            /\ bundle[i].insights = bundle[j].insights
            /\ bundle[i].prediccion = bundle[j].prediccion

\* C18: when a call has returned, the sales ledger and the expense ledger
\* the caller passed hold the records, fields and values they held before.
C18_InputImmutability ==
    pc = "sum_fin" => (df_ventas = entrada.ventas /\ df_gastos = entrada.gastos)

-----------------------------------------------------------------------------
(* The records the allocator returns, stated on the runs of SpecMerge.      *)

\* The allocator has visited every branch.
AutomaticosListos == pc \in {"merge_combinar", "merge_done"}

\* The service-embedded parts cost the sales rows yield for branch s.
CostoServiciosDe(ventas, s) ==
    IF Len(ventas) = 0 THEN 0
    ELSE costo_repuestos_servicios(DeSucursal(DropNaT(ventas), s))

DeLaClasificacion(c, s) == DeClasificacion(gastos_automaticos, c, s)

\* C21: every record the allocator builds is VARIABLE, has the fixed
\* supplier as provider, one of the two synthetic classifications, a
\* strictly positive amount and total_pct = total_pct_se + total_pct_re =
\* total_usd; there is at most one record per branch and classification, and
\* a branch whose computed cost is zero or negative has no record of that
\* classification.
C21_SyntheticRecords ==
    /\ \A i \in DOMAIN gastos_automaticos :
         LET g == gastos_automaticos[i]
         IN  /\ g.tipo = "VARIABLE"
             /\ g.proveedor = "JOHN DEERE"
             /\ g.clasificacion \in {CLASIF_MOSTRADOR, CLASIF_SERVICIOS}
             /\ g.total_usd > 0
             /\ g.total_pct = g.total_pct_se + g.total_pct_re
             /\ g.total_pct = g.total_usd
    /\ \A s \in SucursalesModelo \cup {NA} :
         /\ Len(DeLaClasificacion(CLASIF_MOSTRADOR, s)) <= 1
         /\ Len(DeLaClasificacion(CLASIF_SERVICIOS, s)) <= 1
         /\ (AutomaticosListos /\ CostoMostradorDe(db.ventas, s) <= 0)
                => DeLaClasificacion(CLASIF_MOSTRADOR, s) = <<>>
         /\ (AutomaticosListos /\ CostoServiciosDe(db.ventas, s) <= 0)
                => DeLaClasificacion(CLASIF_SERVICIOS, s) = <<>>

\* The allocator returned a service-embedded record for one branch and none
\* for a branch whose service sales are a net credit.
C21_Witness ==
    /\ pc = "merge_done"
    /\ \E s \in SucursalesModelo :
         Len(DeLaClasificacion(CLASIF_SERVICIOS, s)) = 1
    /\ \E s \in SucursalesModelo :
         /\ CostoServiciosDe(db.ventas, s) < 0
         /\ DeLaClasificacion(CLASIF_SERVICIOS, s) = <<>>

-----------------------------------------------------------------------------
(* The Simple Average method, stated on the runs of SpecForecast.           *)

\* The run ended in predict_next_month_simple with a number.
SimpleConNumero ==
    /\ Terminado
    /\ prediccion.metodo = <<"Promedio Simple">>
    /\ prediccion.prediccion # NULL

IngresoReciente == SumSeq(Col(VentasRecientes(df_ventas), "total"))
DiasActivosRecientes ==
    LET fechas == Col(VentasRecientes(df_ventas), "fecha")
    IN  MaxSeq(fechas) - MinSeq(fechas) + 1

\* C22 (as stated): the Simple Average forecast is the revenue of the 14
\* days ending at the latest sale date divided by 14, times the working
\* days of the 30-day horizon, and the confidence is High / Medium / Low as
\* the standard deviation of the daily sums over that daily average is
\* below 0.3, below 0.6, or neither (Low when the average is <= 0).
C22_TrailingAverage ==
    SimpleConNumero =>
        /\ FracEq(prediccion.prediccion[1],
                  Frac(IngresoReciente * DiasHabiles(df_ventas), DIAS_RECIENTES))
        /\ prediccion.confianza
             = ConfianzaSimple(VentasRecientes(df_ventas), DIAS_RECIENTES)

\* What the code computes: the divisor is the span between the first and
\* the last sale of the window.
C22_ActiveSpanAverage ==
    SimpleConNumero =>
        /\ FracEq(prediccion.prediccion[1],
                  Frac(IngresoReciente * DiasHabiles(df_ventas), DiasActivosRecientes))
        /\ prediccion.confianza
             = ConfianzaSimple(VentasRecientes(df_ventas), DiasActivosRecientes)

\* The window is not covered by sales from end to end.
C22_ShortSpan ==
    /\ SimpleConNumero
    /\ DiasActivosRecientes < DIAS_RECIENTES
    /\ IngresoReciente > 0

\* Where the window is covered, the two divisors coincide.
C22_FullSpan ==
    /\ SimpleConNumero
    /\ DiasActivosRecientes = DIAS_RECIENTES

-----------------------------------------------------------------------------
(* The working-day mask, stated on the runs of SpecForecast.                *)

\* Day 1 is a Monday, so the Sundays are the multiples of 7.
EsDomingo(d) == d % 7 = 0

UltimaFecha == MaxSeq(Col(df_ventas, "fecha"))
NoDomingosTras(last) == {i \in 1..projection_days : ~ EsDomingo(last + i)}

\* The sum of f over the days of S.
SumaSobre(f, S) == SumSeq([i \in DOMAIN f |-> IF i \in S THEN f[i] ELSE 0])

ConPronostico == Terminado /\ prediccion.prediccion # NULL

\* C23: the mask over the 30 days after the last sale date is 0 on exactly
\* the Sundays and non-zero from Monday to Saturday; every strategy's scalar
\* is its daily forecast summed over the non-Sunday days; the reported
\* working-day count is the number of non-Sunday days, 25 or 26; and the
\* reported daily rate is the forecast over that count.
C23_WorkingDayMask ==
    ConPronostico =>
        LET last == UltimaFecha
            wm == _future_working_mask(last, projection_days)
            niveles == ExitosDe(intentados)
            dias == NoDomingosTras(last)
            n == Cardinality(dias)
        IN  /\ \A i \in 1..projection_days :
                 /\ wm.mask[i] = 0 <=> EsDomingo(last + i)
                 /\ wm.mask[i] \in {0, 1}
            /\ Len(predicciones) = Len(niveles)
            /\ \A k \in DOMAIN predicciones :
                 predicciones[k] = SumaSobre(ForecastDe(niveles[k]), dias)
            /\ prediccion.dias_habiles = Val(n)
            /\ n \in {25, 26}
            /\ FracEq(prediccion.promedio_diario_habil[1],
                      Frac(prediccion.prediccion[1].num,
                           prediccion.prediccion[1].den * n))

\* Three strategies succeeded on a horizon that begins on a Sunday.
C23_Witness ==
    /\ ConPronostico
    /\ Len(predicciones) = 3
    /\ EsDomingo(UltimaFecha + 1)
    /\ prediccion.dias_habiles = Val(25)

\* A horizon with four Sundays.
C23_FourSundays ==
    /\ ConPronostico
    /\ Len(predicciones) >= 2
    /\ prediccion.dias_habiles = Val(26)

-----------------------------------------------------------------------------
(* Enrichment that succeeds, stated on the runs of SpecSummary.             *)

\* The enrichment connector was asked for, is present, and answers the
\* analysis prompt with a well-formed JSON object of findings.
RespuestaBienFormada ==
    /\ entrada.gemini_api_key # NULL
    /\ caps.GEMINI_AVAILABLE
    /\ caps.respuesta = "hallazgos"

\* The enrichment step appends the returned findings after the local ones
\* and counts them in the status.
Anexados ==
    /\ insights'.tendencias = insights.tendencias \o HallazgosDeGemini.tendencias
    /\ insights'.alertas = insights.alertas \o HallazgosDeGemini.alertas
    /\ insights'.recomendaciones = insights.recomendaciones
    /\ recomendaciones' = recomendaciones \o HallazgosDeGemini.recomendaciones
    /\ gemini_status'.tendencias_agregadas = Len(HallazgosDeGemini.tendencias)
    /\ gemini_status'.alertas_agregadas = Len(HallazgosDeGemini.alertas)
    /\ gemini_status'.recomendaciones_agregadas
         = Len(HallazgosDeGemini.recomendaciones)

\* C24: whenever the connector returns a well-formed JSON object, for any
\* sales and any expense ledger, every returned trend, alert and
\* recommendation is appended after all local items of the same list, no
\* local item is removed or reordered, and the status counts equal the
\* numbers appended.
C24_EnrichmentAppends ==
    [][(pc = "al_fin" /\ RespuestaBienFormada) => Anexados]_vars

\* The same statement for calls with an empty expense ledger.
C24_AppendsWithoutExpenses ==
    [][(pc = "al_fin" /\ RespuestaBienFormada /\ entrada.gastos = <<>>)
          => Anexados]_vars

\* A call with expenses reached the enrichment step with local findings.
C24_WithExpenses ==
    /\ pc = "al_fin"
    /\ RespuestaBienFormada
    /\ entrada.gastos # <<>>
    /\ insights.tendencias # <<>>

-----------------------------------------------------------------------------
(* The record calls of the persistence block, on the runs of SpecSummary.   *)

FuenteDelAnalisis ==
    IF entrada.gemini_api_key # NULL /\ caps.GEMINI_AVAILABLE
       /\ gemini_status.activo
    THEN "gemini" ELSE "local"

HayPronostico ==
    prediccion.prediccion # NULL /\ prediccion.prediccion[1].num # 0

\* One row per emitted item in the stated kind order: trends, alerts,
\* recommendations, anomalies, critical alerts, and the forecast last.
FilasDeclaradas ==
    LET ahora == entorno.now
        fuente == FuenteDelAnalisis
    IN  FilasDe("tendencia", fuente, insights.tendencias, ahora)
        \o FilasDe("alerta", fuente, insights.alertas, ahora)
        \o FilasDe("recomendacion", fuente,
                   insights.recomendaciones \o recomendaciones, ahora)
        \o FilasDe("anomalia", fuente, anomalias, ahora)
        \o FilasDe("alerta", fuente, alertas_criticas, ahora)
        \o (IF HayPronostico
            THEN <<Fila("prediccion", fuente, prediccion, ahora)>> ELSE <<>>)

\* The sequence without its k-th element.
SinLaFila(filas, k) ==
    IF k \in DOMAIN filas
    THEN SubSeq(filas, 1, k - 1) \o SubSeq(filas, k + 1, Len(filas))
    ELSE filas

\* C25: with the persistence connector present a run issues one record call
\* per emitted trend, alert, recommendation, anomaly, critical alert and the
\* forecast, in that kind order, and a record call that fails does not keep
\* the remaining items of the run from being recorded.
C25_RecordCalls ==
    [][(pc = "sum_guardar" /\ caps.HISTORIAL_DISPONIBLE) =>
          historial' = historial
                         \o SinLaFila(FilasDeclaradas, caps.falla_guardado)]_vars

\* The kind order alone, on runs where no record call fails.
C25_OrderWithoutFailure ==
    [][(pc = "sum_guardar" /\ caps.HISTORIAL_DISPONIBLE
          /\ caps.falla_guardado = 0) =>
          historial' = historial \o FilasDeclaradas]_vars

\* The items recorded when no call fails, whatever the order.
C25_EveryItemRecorded ==
    [][(pc = "sum_guardar" /\ caps.HISTORIAL_DISPONIBLE
          /\ caps.falla_guardado = 0) =>
          /\ Len(historial') = Len(historial) + Len(FilasDeclaradas)
          /\ \A i \in DOMAIN FilasDeclaradas :
               \E j \in DOMAIN historial' :
                   j > Len(historial) /\ historial'[j] = FilasDeclaradas[i]]_vars

\* A run with a forecast and a critical alert reaches the persistence block.
C25_ForecastAndCritical ==
    /\ pc = "sum_guardar"
    /\ caps.HISTORIAL_DISPONIBLE
    /\ HayPronostico
    /\ alertas_criticas # <<>>

-----------------------------------------------------------------------------
(* The passes of the detector, stated on the runs of SpecAnomaly.           *)

DeCategoria(c) == SelectSeq(anomalias, LAMBDA a : a.categoria = c)

\* The Monday-to-Sunday weeks that hold a sale, in ascending order.
SemanasConVentas ==
    SortedSet({(df_ventas[i].fecha - 1) \div 7 : i \in DOMAIN df_ventas})

DetectorTerminado == pc = "an_fin" /\ Len(df_ventas) > 0

\* C26: for a non-empty ledger the detector returns the results of the
\* outlier, weekday, week-over-week and gap passes concatenated in that
\* order; the weekday pass adds nothing below 7 records, the week-over-week
\* pass nothing below 14 records or below 3 weekly buckets, while the
\* outlier and gap passes still return their results; a single record gives
\* the empty list.
C26_PassGating ==
    DetectorTerminado =>
        /\ anomalias = AnomaliasAtipicas(df_ventas)
                         \o AnomaliasDiaSemana(df_ventas)
                         \o AnomaliasSemanales(df_ventas)
                         \o AnomaliasPeriodos(df_ventas)
        /\ DeCategoria("Valor Atipico") = AnomaliasAtipicas(df_ventas)
        /\ DeCategoria("Temporal") = AnomaliasPeriodos(df_ventas)
        /\ Len(df_ventas) < 7 => DeCategoria("Patron Temporal") = <<>>
        /\ (Len(df_ventas) < 14 \/ Len(SemanasConVentas) < 3)
              => DeCategoria("Tendencia") = <<>>
        /\ Len(df_ventas) = 1 => anomalias = <<>>

\* Eleven to thirteen records over three weeks with an abrupt weekly change:
\* the outlier and the gap pass report, the week-over-week pass does not.
C26_Witness ==
    /\ DetectorTerminado
    /\ Len(df_ventas) >= 7 /\ Len(df_ventas) < 14
    /\ Len(SemanasConVentas) >= 3
    /\ \E j \in 2..Len(SemanasConVentas) :
          CambioAbrupto(TotalDeSemana(df_ventas, SemanasConVentas[j - 1]),
                        TotalDeSemana(df_ventas, SemanasConVentas[j]))
    /\ DeCategoria("Valor Atipico") # <<>>
    /\ DeCategoria("Temporal") # <<>>
    /\ DeCategoria("Tendencia") = <<>>

\* The total of the sales of week w.
TotalSemanal(w) ==
    SumSeq([i \in DOMAIN df_ventas |->
               IF (df_ventas[i].fecha - 1) \div 7 = w THEN df_ventas[i].total ELSE 0])

\* The positions (from the second on) of the weeks whose total differs from
\* the previous bucket's positive total by more than half of it.
SemanasMarcadas ==
    LET ws == SemanasConVentas
    IN  SelectSeq([j \in 1..(Len(ws) - 1) |-> j + 1],
            LAMBDA j : /\ TotalSemanal(ws[j - 1]) > 0
                       /\ 2 * Abs(TotalSemanal(ws[j]) - TotalSemanal(ws[j - 1]))
                            > TotalSemanal(ws[j - 1]))

SemanasListas ==
    /\ pc \in {"an_periodos", "an_fin"}
    /\ Len(df_ventas) >= 14
    /\ Len(SemanasConVentas) >= 3

\* C27: with at least 14 records and 3 weekly buckets the week-over-week
\* pass flags exactly the weeks whose total differs from the previous
\* week's total by strictly more than 50% of it, as an increase when the
\* total rose and a decrease when it fell; a week after a total <= 0 is
\* never flagged.
C27_WeekOverWeek ==
    SemanasListas =>
        LET ws == SemanasConVentas
            marcadas == SemanasMarcadas
            reportadas == DeCategoria("Tendencia")
        IN  /\ Len(reportadas) = Len(marcadas)
            /\ \A k \in DOMAIN reportadas :
                 LET j == marcadas[k]
                 IN  /\ reportadas[k].fecha = <<7 * ws[j] + 1, 7 * ws[j] + 7>>
                     /\ reportadas[k].valor = Frac(TotalSemanal(ws[j]), 1)
                     /\ reportadas[k].tipo =
                          IF TotalSemanal(ws[j]) > TotalSemanal(ws[j - 1])
                          THEN TIPO_AUMENTO ELSE TIPO_CAIDA
            /\ \A j \in 2..Len(ws) :
                 TotalSemanal(ws[j - 1]) <= 0 =>
                     \A k \in DOMAIN reportadas :
                         reportadas[k].fecha # <<7 * ws[j] + 1, 7 * ws[j] + 7>>

\* A week at exactly half of the previous one, and nothing flagged.
C27_Witness ==
    /\ SemanasListas
    /\ pc = "an_fin"
    /\ \E j \in 2..Len(SemanasConVentas) :
          /\ TotalSemanal(SemanasConVentas[j - 1]) > 0
          /\ 2 * TotalSemanal(SemanasConVentas[j])
               = TotalSemanal(SemanasConVentas[j - 1])
    /\ DeCategoria("Tendencia") = <<>>

\* A week that follows a week with a negative total.
C27_AfterNegativeWeek ==
    /\ SemanasListas
    /\ pc = "an_fin"
    /\ \E j \in 2..Len(SemanasConVentas) :
          TotalSemanal(SemanasConVentas[j - 1]) < 0
    /\ DeCategoria("Tendencia") # <<>>

\* The distinct sale dates in ascending order: records of one date are
\* 0 days apart, so the consecutive pairs that matter are of distinct dates.
FechasDistintas == SortedSet({df_ventas[i].fecha : i \in DOMAIN df_ventas})

SaltosLargos ==
    SelectSeq([j \in 1..(Len(FechasDistintas) - 1) |-> j + 1],
              LAMBDA j : FechasDistintas[j] - FechasDistintas[j - 1] > 7)

\* C28: the gap pass reports one 'period without sales' for each pair of
\* consecutive records, in date order, more than 7 days apart, labelled
\* with the earlier and the later date, and none for a pair 7 days apart or
\* less, whatever the order of the records in the ledger.
C28_GapPass ==
    DetectorTerminado =>
        LET reportadas == DeCategoria("Temporal")
        IN  /\ Len(reportadas) = Len(SaltosLargos)
            /\ \A k \in DOMAIN reportadas :
                 /\ reportadas[k].tipo = TIPO_PERIODO
                 /\ reportadas[k].fecha
                      = <<FechasDistintas[SaltosLargos[k] - 1],
                          FechasDistintas[SaltosLargos[k]]>>

\* A ledger that is not in date order, with one pair 8 days apart and one
\* pair exactly 7 days apart.
C28_Witness ==
    /\ DetectorTerminado
    /\ \E i \in 2..Len(df_ventas) : df_ventas[i].fecha < df_ventas[i - 1].fecha
    /\ \E j \in 2..Len(FechasDistintas) :
          FechasDistintas[j] - FechasDistintas[j - 1] = 7
    /\ Len(DeCategoria("Temporal")) = 1

-----------------------------------------------------------------------------
(* The 'thin margin' rule, stated on the runs of SpecAlerts.                *)

\* 0 < (revenue - expenses) / revenue * 100 < 5 on the expense total the
\* engine resolved, for a positive revenue.
MargenDelgado ==
    LET R == TotalIngresos(df_ventas)
        G == gastos_totales_ctx.gastos_postventa_total
    IN  /\ R > 0
        /\ R - G > 0
        /\ 20 * (R - G) < R

NuncaConGastosSuperan ==
    ~ (Emitidas(ALERTA_MARGEN) > 0 /\ Emitidas(ALERTA_GASTOS) > 0)

\* C29: the MEDIUM 'thin margin' alert is emitted iff revenue is positive
\* and 0 < margin% < 5; it is not emitted at a margin of exactly 0 or
\* exactly 5, and never together with 'expenses exceed revenue'.
C29_ThinMargin ==
    AlertasListas =>
        /\ IF MargenDelgado
           THEN Emitida(ALERTA_MARGEN, "MEDIA")
           ELSE Emitidas(ALERTA_MARGEN) = 0
        /\ NuncaConGastosSuperan

\* The same statement for calls that pass a non-empty expense ledger.
C29_ThinMarginWithLedger ==
    (AlertasListas /\ Len(df_gastos) > 0) =>
        /\ IF MargenDelgado
           THEN Emitida(ALERTA_MARGEN, "MEDIA")
           ELSE Emitidas(ALERTA_MARGEN) = 0
        /\ NuncaConGastosSuperan

\* The alert is never emitted without a thin margin.
C29_OnlyIfThin ==
    AlertasListas =>
        /\ Emitidas(ALERTA_MARGEN) > 0 => MargenDelgado
        /\ NuncaConGastosSuperan

\* A margin of 4% with a passed ledger, and the alert.
C29_ThinWithLedger ==
    /\ pc = "al_fin"
    /\ Len(df_gastos) > 0
    /\ MargenDelgado
    /\ Emitida(ALERTA_MARGEN, "MEDIA")

\* A margin of exactly 5% with a passed ledger.
C29_ExactlyFive ==
    /\ pc = "al_fin"
    /\ Len(df_gastos) > 0
    /\ TotalIngresos(df_ventas) > 0
    /\ 20 * (TotalIngresos(df_ventas) - gastos_totales_ctx.gastos_postventa_total)
          = TotalIngresos(df_ventas)

-----------------------------------------------------------------------------
(* The productivity context, on pairs of runs of SpecSummary.               *)

AnotacionesDeProductividad == {"productividad", "baja_ocupacion", "planificacion"}

SinAnotaciones(lista) ==
    SelectSeq(lista, LAMBDA h : h.clave \notin AnotacionesDeProductividad)

\* The findings of the ledgers: the insight lists without the productivity
\* annotations.
HallazgosDeLedgers(b) ==
    [tendencias |-> SinAnotaciones(b.insights.tendencias),
     alertas |-> SinAnotaciones(b.insights.alertas),
     recomendaciones |-> SinAnotaciones(b.insights.recomendaciones)]

\* The calls i and j ran at the same time of the clock; the calls of a run
\* of SpecSummary have the same ledgers and period end, so two of them at
\* the same clock differ at most in the productivity context.
MismoReloj(i, j) == bundle[i].timestamp_analisis = bundle[j].timestamp_analisis

\* Two calls returned: the first without a productivity context, the second
\* with one, on the same ledgers, period end and clock.
DosCorridasConContexto ==
    /\ Len(bundle) = 2
    /\ entrada.productividad_context # NULL

C30_EmptyLedgers ==
    /\ DosCorridasConContexto
    /\ LedgersVacios
    /\ bundle[1].insights # bundle[2].insights

=============================================================================
